---- MODULE Spec2Model ----
(***************************************************************************)
(* Model of the cody agent: the REPL (prompt), the conversation loop (run), *)
(* the tool dispatcher (executeTool) and the six filesystem tools.          *)
(*                                                                          *)
(* A JavaScript string is a sequence of one-character strings, so that the  *)
(* string algorithms of the tools (indexOf, split, replace, RegExp.test,    *)
(* JSON.parse, path.join) are computed and not assumed.                     *)
(***************************************************************************)
EXTENDS Integers, Sequences, FiniteSets, TLC

\* ------------------------------------------------------------------ bounds
\* Longest file content / old_string / new_string of the edit_file harness.
MaxContent == 3
MaxOld == 2
MaxNew == 2
\* Longest glob and longest base name of the glob harness.
MaxGlob == 3
MaxName == 3
\* How far the line counts of the files of the search harness lie around the
\* cap on the results and around half of it.
LineSlack == 1
\* Model invocations of a session and tool calls the model sends in a session.
MaxInvocations == 3
MaxCalls == 2
\* Code units of the content of a write_file call.
MaxWritten == 3
\* Tool calls of a sequence of calls.
MaxSteps == 3

\* ------------------------------------------------------- JavaScript strings
\* All strings of length 0..n over the alphabet A.
RECURSIVE StringsUpTo(_, _)
StringsUpTo(A, n) ==
  IF n = 0 THEN {<<>>}
  ELSE LET shorter == StringsUpTo(A, n - 1)
       IN shorter \cup {Append(s, c) : s \in {t \in shorter : Len(t) = n - 1}, c \in A}

\* s.slice(i) for a 0-based i.
Drop(s, i) == SubSeq(s, i + 1, Len(s))

\* s.slice(0, i).
Take(s, i) == SubSeq(s, 1, i)

\* s.startsWith(sub, i) for a 0-based i.
StartsAt(s, sub, i) ==
  /\ i + Len(sub) <= Len(s)
  /\ SubSeq(s, i + 1, i + Len(sub)) = sub

\* String.prototype.indexOf: the first position of sub in s, or -1.
RECURSIVE IndexFrom(_, _, _)
IndexFrom(s, sub, i) ==
  IF i + Len(sub) > Len(s) THEN -1
  ELSE IF StartsAt(s, sub, i) THEN i
  ELSE IndexFrom(s, sub, i + 1)

IndexOf(s, sub) == IndexFrom(s, sub, 0)

\* String.prototype.split with a string separator: "" splits into the code
\* units ("".split("") is the empty array); any other separator cuts at its
\* non-overlapping occurrences, left to right ("".split("x") is [""]).
RECURSIVE SplitOn(_, _)
SplitOn(s, sep) ==
  LET i == IndexOf(s, sep)
  IN IF i = -1 THEN <<s>>
     ELSE <<Take(s, i)>> \o SplitOn(Drop(s, i + Len(sep)), sep)

Split(s, sep) ==
  IF sep = <<>> THEN [i \in 1..Len(s) |-> <<s[i]>>]
  ELSE SplitOn(s, sep)

\* Array.prototype.join.
RECURSIVE Join(_, _)
Join(parts, sep) ==
  IF Len(parts) = 0 THEN <<>>
  ELSE IF Len(parts) = 1 THEN parts[1]
  ELSE parts[1] \o sep \o Join(Tail(parts), sep)

\* GetSubstitution of String.prototype.replace for a string pattern (no
\* capture groups): in the replacement text "$$" stands for "$", "$&" for the
\* matched text and "$'" for the text after the match; every other character,
\* a "$" before anything else included, is copied. (The fourth pattern, "$"
\* before a backquote for the text before the match, is left out: no alphabet
\* of the model holds a backquote.)
RECURSIVE GetSubstitution(_, _, _, _)
GetSubstitution(matched, str, position, replacement) ==
  IF replacement = <<>> THEN <<>>
  ELSE IF replacement[1] = "$" /\ Len(replacement) >= 2
            /\ replacement[2] \in {"$", "&", "'"}
  THEN LET c == replacement[2]
           sub == IF c = "$" THEN <<"$">>
                  ELSE IF c = "&" THEN matched
                  ELSE Drop(str, position + Len(matched))
       IN sub \o GetSubstitution(matched, str, position, Drop(replacement, 2))
  ELSE <<replacement[1]>> \o GetSubstitution(matched, str, position, Tail(replacement))

\* String.prototype.replace(pattern, replacement) with two strings: the first
\* occurrence only.
Replace(s, pattern, replacement) ==
  LET i == IndexOf(s, pattern)
  IN IF i = -1 THEN s
     ELSE Take(s, i) \o GetSubstitution(pattern, s, i, replacement)
          \o Drop(s, i + Len(pattern))

\* Number to decimal text, as a template literal prints it.
Digit(d) == <<"0","1","2","3","4","5","6","7","8","9">>[d + 1]

RECURSIVE DecNat(_)
DecNat(n) == IF n < 10 THEN <<Digit(n)>> ELSE Append(DecNat(n \div 10), Digit(n % 10))

Dec(n) == IF n < 0 THEN <<"-">> \o DecNat(0 - n) ELSE DecNat(n)

\* String.prototype.trim: white space here is the space, tab, CR and LF.
WhiteSpace == {" ", "\t", "\n", "\r"}

RECURSIVE TrimStart(_)
TrimStart(s) == IF s # <<>> /\ s[1] \in WhiteSpace THEN TrimStart(Tail(s)) ELSE s

RECURSIVE TrimEnd(_)
TrimEnd(s) ==
  IF s # <<>> /\ s[Len(s)] \in WhiteSpace THEN TrimEnd(Take(s, Len(s) - 1)) ELSE s

Trim(s) == TrimEnd(TrimStart(s))

\* ------------------------------------------------------------------ RegExp
\* The part of the RegExp engine the program's patterns use: literal
\* characters, "\c" (an escaped literal), ".", the assertions "^" and "$", and
\* the quantifiers "*", "+", "?" after an atom. new RegExp(text) throws a
\* SyntaxError for a quantifier with nothing to repeat, a "\" at the end of
\* the pattern and an unterminated group; groups that are closed, classes and
\* alternation are outside every pattern alphabet of the model.
LowerCase == <<"a","b","c","d","e","f","g","h","i","j","k","l","m","n","o","p","q","r","s","t","u","v","w","x","y","z">>
UpperCase == <<"A","B","C","D","E","F","G","H","I","J","K","L","M","N","O","P","Q","R","S","T","U","V","W","X","Y","Z">>

\* Canonicalize of the "i" flag: a lower-case letter maps to its upper case.
Canon(c) ==
  IF \E i \in 1..Len(LowerCase) : LowerCase[i] = c
  THEN UpperCase[CHOOSE i \in 1..Len(LowerCase) : LowerCase[i] = c]
  ELSE c

\* "." matches any character but a line terminator.
LineTerminators == {"\n", "\r"}

Quantifiers == {"*", "+", "?"}

\* A parsed term: k is "chr", "any", "bol" or "eol"; lo and hi bound the
\* repetitions (hi = -1: no upper bound).
Term(k, c, lo, hi) == [k |-> k, c |-> c, lo |-> lo, hi |-> hi]

SyntaxError == [ok |-> FALSE, terms |-> <<>>]

\* The atom at the head of p with its quantifier: [term, rest].
Quantified(k, c, rest) ==
  IF rest # <<>> /\ rest[1] \in Quantifiers
  THEN LET q == rest[1]
           after == Tail(rest)
           \* a "?" after a quantifier makes it lazy: the same set of matches
           after2 == IF after # <<>> /\ after[1] = "?" THEN Tail(after) ELSE after
       IN [term |-> Term(k, c, IF q = "+" THEN 1 ELSE 0, IF q = "?" THEN 1 ELSE -1),
           rest |-> after2]
  ELSE [term |-> Term(k, c, 1, 1), rest |-> rest]

RECURSIVE RegExpParse(_)
RegExpParse(p) ==
  IF p = <<>> THEN [ok |-> TRUE, terms |-> <<>>]
  ELSE
    LET c == p[1]
        Cons(term, rest) ==
          LET r == RegExpParse(rest)
          IN IF r.ok THEN [ok |-> TRUE, terms |-> <<term>> \o r.terms] ELSE SyntaxError
        Atom(k, ch, rest) ==
          LET q == Quantified(k, ch, rest) IN Cons(q.term, q.rest)
        Assertion(k) ==
          IF Len(p) >= 2 /\ p[2] \in Quantifiers THEN SyntaxError
          ELSE Cons(Term(k, "", 1, 1), Tail(p))
    IN IF c = "\\" THEN (IF Len(p) = 1 THEN SyntaxError ELSE Atom("chr", p[2], Drop(p, 2)))
       ELSE IF c = "." THEN Atom("any", "", Tail(p))
       ELSE IF c = "^" THEN Assertion("bol")
       ELSE IF c = "$" THEN Assertion("eol")
       ELSE IF c \in Quantifiers THEN SyntaxError
       ELSE IF c \in {"(", ")"} THEN SyntaxError
       ELSE Atom("chr", c, Tail(p))

\* new RegExp(text, "i"): ok is FALSE where the constructor throws.
RegExpNew(text) == RegExpParse(text)

AtomMatches(term, ch) ==
  IF term.k = "any" THEN ch \notin LineTerminators
  ELSE Canon(term.c) = Canon(ch)

\* The terms from index ti on match s starting at the 0-based position si.
RECURSIVE MatchFrom(_, _, _, _)
MatchFrom(terms, ti, s, si) ==
  IF ti > Len(terms) THEN TRUE
  ELSE LET t == terms[ti]
       IN IF t.k = "bol" THEN si = 0 /\ MatchFrom(terms, ti + 1, s, si)
          ELSE IF t.k = "eol" THEN si = Len(s) /\ MatchFrom(terms, ti + 1, s, si)
          ELSE \E n \in t.lo..(Len(s) - si) :
                 /\ t.hi = -1 \/ n <= t.hi
                 /\ \A j \in 1..n : AtomMatches(t, s[si + j])
                 /\ MatchFrom(terms, ti + 1, s, si + n)

\* RegExp.prototype.test without the "g" flag: a match starting anywhere.
RegExpTest(re, s) == \E si \in 0..Len(s) : MatchFrom(re.terms, 1, s, si)

\* ------------------------------------------------------------ globToRegExp
\* The characters /[.+^${}()|[\]\\]/ that globToRegExp escapes.
GlobEscaped == {".", "+", "^", "$", "{", "}", "(", ")", "|", "[", "]", "\\"}

\* glob.replace(/[.+^${}()|[\]\\]/g, "\\$&")
RECURSIVE EscapeSpecials(_)
EscapeSpecials(g) ==
  IF g = <<>> THEN <<>>
  ELSE (IF g[1] \in GlobEscaped THEN <<"\\", g[1]>> ELSE <<g[1]>>)
       \o EscapeSpecials(Tail(g))

\* .replace(/\*/g, ".*").replace(/\?/g, ".")
RECURSIVE MapWildcards(_)
MapWildcards(g) ==
  IF g = <<>> THEN <<>>
  ELSE (IF g[1] = "*" THEN <<".","*">> ELSE IF g[1] = "?" THEN <<".">> ELSE <<g[1]>>)
       \o MapWildcards(Tail(g))

\* new RegExp(`^${escaped}$`, "i")
globToRegExp(glob) == RegExpNew(<<"^">> \o MapWildcards(EscapeSpecials(glob)) \o <<"$">>)

\* --------------------------------------------------------- JavaScript values
\* A decoded argument payload: t is "undefined", "null", "bool", "num", "str"
\* or "obj"; an object maps its keys to values.
JsVal(t, b, n, s, f) == [t |-> t, b |-> b, n |-> n, s |-> s, f |-> f]
JsUndefined == JsVal("undefined", FALSE, 0, <<>>, <<>>)
JsNull == JsVal("null", FALSE, 0, <<>>, <<>>)
JsBool(b) == JsVal("bool", b, 0, <<>>, <<>>)
JsNum(n) == JsVal("num", FALSE, n, <<>>, <<>>)
JsStr(s) == JsVal("str", FALSE, 0, s, <<>>)
JsObj(f) == JsVal("obj", FALSE, 0, <<>>, f)

\* ToString, as a template literal or a string method applies it.
JsToString(v) ==
  IF v.t = "str" THEN v.s
  ELSE IF v.t = "num" THEN Dec(v.n)
  ELSE IF v.t = "bool" THEN (IF v.b THEN <<"t","r","u","e">> ELSE <<"f","a","l","s","e">>)
  ELSE IF v.t = "null" THEN <<"n","u","l","l">>
  ELSE IF v.t = "undefined" THEN <<"u","n","d","e","f","i","n","e","d">>
  ELSE <<"[","o","b","j","e","c","t"," ","O","b","j","e","c","t","]">>

\* ToBoolean: what `v && ...` tests.
Truthy(v) ==
  IF v.t = "str" THEN v.s # <<>>
  ELSE IF v.t = "num" THEN v.n # 0
  ELSE IF v.t = "bool" THEN v.b
  ELSE v.t = "obj"

\* args.key: reading a property of undefined or null throws a TypeError; a
\* primitive has none of the argument names as a property.
PropertyThrows(v) == v.t \in {"undefined", "null"}

Get(v, key) ==
  IF v.t = "obj" /\ key \in DOMAIN v.f THEN v.f[key] ELSE JsUndefined

\* v ?? d
Coalesce(v, d) == IF v.t \in {"undefined", "null"} THEN d ELSE v

\* ---------------------------------------------------------------- JSON.parse
\* JSON.parse for null, true, false, non-negative integers, strings (with the
\* escapes \" \\ \/ \n) and objects of these, white space allowed between
\* tokens. ok is FALSE where JSON.parse throws a SyntaxError. Arrays, fractions
\* and the other escapes are outside every payload of the model.
JsonFail == [ok |-> FALSE, val |-> JsUndefined, next |-> 0]
JsonOk(v, next) == [ok |-> TRUE, val |-> v, next |-> next]

Digits == {"0", "1", "2", "3", "4", "5", "6", "7", "8", "9"}
DigitValue(c) == CHOOSE d \in 0..9 : Digit(d) = c

RECURSIVE SkipWs(_, _)
SkipWs(s, i) == IF i <= Len(s) /\ s[i] \in WhiteSpace THEN SkipWs(s, i + 1) ELSE i

\* The characters of a string token from index i (after the opening quote).
RECURSIVE JsonString(_, _, _)
JsonString(s, i, acc) ==
  IF i > Len(s) THEN JsonFail
  ELSE IF s[i] = "\"" THEN JsonOk(JsStr(acc), i + 1)
  ELSE IF s[i] = "\\"
  THEN (IF i + 1 > Len(s) THEN JsonFail
        ELSE IF s[i + 1] \in {"\"", "\\", "/"} THEN JsonString(s, i + 2, Append(acc, s[i + 1]))
        ELSE IF s[i + 1] = "n" THEN JsonString(s, i + 2, Append(acc, "\n"))
        ELSE JsonFail)
  ELSE IF s[i] \in {"\n", "\r", "\t"} THEN JsonFail
  ELSE JsonString(s, i + 1, Append(acc, s[i]))

RECURSIVE JsonDigits(_, _, _)
JsonDigits(s, i, acc) ==
  IF i <= Len(s) /\ s[i] \in Digits
  THEN JsonDigits(s, i + 1, 10 * acc + DigitValue(s[i]))
  ELSE JsonOk(JsNum(acc), i)

JsonNumber(s, i) ==
  IF s[i] = "0" /\ i + 1 <= Len(s) /\ s[i + 1] \in Digits THEN JsonFail
  ELSE JsonDigits(s, i, 0)

RECURSIVE JsonValue(_, _)
RECURSIVE JsonMembers(_, _, _)

\* The members of an object from index i (at a key), f the members so far; a
\* repeated key keeps its last value.
JsonMembers(s, i, f) ==
  LET k == SkipWs(s, i)
  IN IF k > Len(s) \/ s[k] # "\"" THEN JsonFail
     ELSE LET key == JsonString(s, k + 1, <<>>)
              colon == IF key.ok THEN SkipWs(s, key.next) ELSE 0
          IN IF ~key.ok \/ colon > Len(s) \/ s[colon] # ":" THEN JsonFail
             ELSE LET v == JsonValue(s, colon + 1)
                      after == IF v.ok THEN SkipWs(s, v.next) ELSE 0
                      g == [x \in (DOMAIN f) \cup {key.val.s} |->
                              IF x = key.val.s THEN v.val ELSE f[x]]
                  IN IF ~v.ok \/ after > Len(s) THEN JsonFail
                     ELSE IF s[after] = "}" THEN JsonOk(JsObj(g), after + 1)
                     ELSE IF s[after] = "," THEN JsonMembers(s, after + 1, g)
                     ELSE JsonFail

JsonValue(s, i) ==
  LET k == SkipWs(s, i)
  IN IF k > Len(s) THEN JsonFail
     ELSE IF StartsAt(s, <<"n","u","l","l">>, k - 1) THEN JsonOk(JsNull, k + 4)
     ELSE IF StartsAt(s, <<"t","r","u","e">>, k - 1) THEN JsonOk(JsBool(TRUE), k + 4)
     ELSE IF StartsAt(s, <<"f","a","l","s","e">>, k - 1) THEN JsonOk(JsBool(FALSE), k + 5)
     ELSE IF s[k] = "\"" THEN JsonString(s, k + 1, <<>>)
     ELSE IF s[k] \in Digits THEN JsonNumber(s, k)
     ELSE IF s[k] = "{"
     THEN (LET m == SkipWs(s, k + 1)
           IN IF m <= Len(s) /\ s[m] = "}" THEN JsonOk(JsObj(<<>>), m + 1)
              ELSE JsonMembers(s, k + 1, <<>>))
     ELSE JsonFail

JSONparse(text) ==
  LET r == JsonValue(text, 1)
  IN IF r.ok /\ SkipWs(text, r.next) = Len(text) + 1
     THEN [ok |-> TRUE, val |-> r.val]
     ELSE [ok |-> FALSE, val |-> JsUndefined]

\* ------------------------------------------------------------ path (POSIX)
\* The index (0-based) of the "/" that ends the directory part of p, or -1:
\* the scan of path.dirname from the right, skipping trailing slashes.
RECURSIVE DirnameEnd(_, _, _)
DirnameEnd(p, i, matchedSlash) ==
  IF i < 1 THEN -1
  ELSE IF p[i + 1] = "/"
  THEN (IF ~matchedSlash THEN i ELSE DirnameEnd(p, i - 1, matchedSlash))
  ELSE DirnameEnd(p, i - 1, FALSE)

\* path.dirname
Dirname(p) ==
  IF p = <<>> THEN <<".">>
  ELSE LET hasRoot == p[1] = "/"
           end == DirnameEnd(p, Len(p) - 1, TRUE)
       IN IF end = -1 THEN (IF hasRoot THEN <<"/">> ELSE <<".">>)
          ELSE IF hasRoot /\ end = 1 THEN <<"/","/">>
          ELSE Take(p, end)

\* The segments of p between slashes that name something: "" and "." dropped.
Segments(p) == SelectSeq(Split(p, <<"/">>), LAMBDA seg : seg # <<>> /\ seg # <<".">>)

\* path.basename: the last segment, trailing slashes ignored.
Basename(p) ==
  LET segs == SelectSeq(Split(p, <<"/">>), LAMBDA seg : seg # <<>>)
  IN IF segs = <<>> THEN <<>> ELSE segs[Len(segs)]

\* normalizeString: ".." removes the segment before it, or stays when there is
\* none to remove (the path is relative).
RECURSIVE NormalizeSegments(_, _)
NormalizeSegments(segs, acc) ==
  IF segs = <<>> THEN acc
  ELSE IF segs[1] = <<".",".">> /\ acc # <<>> /\ acc[Len(acc)] # <<".",".">>
  THEN NormalizeSegments(Tail(segs), Take(acc, Len(acc) - 1))
  ELSE NormalizeSegments(Tail(segs), Append(acc, segs[1]))

\* path.normalize
Normalize(p) ==
  IF p = <<>> THEN <<".">>
  ELSE LET isAbsolute == p[1] = "/"
           trailing == p[Len(p)] = "/"
           body == Join(NormalizeSegments(Segments(p), <<>>), <<"/">>)
       IN IF body = <<>> THEN (IF isAbsolute THEN <<"/">> ELSE IF trailing THEN <<".","/">> ELSE <<".">>)
          ELSE (IF isAbsolute THEN <<"/">> ELSE <<>>) \o body
               \o (IF trailing THEN <<"/">> ELSE <<>>)

\* path.join(a, b): the non-empty arguments joined by "/", then normalised.
PathJoin(a, b) ==
  IF a = <<>> /\ b = <<>> THEN <<".">>
  ELSE IF a = <<>> THEN Normalize(b)
  ELSE IF b = <<>> THEN Normalize(a)
  ELSE Normalize(a \o <<"/">> \o b)

\* --------------------------------------------------------------- filesystem
\* The tree below the working directory: a function from a path (the sequence
\* of its names, <<>> the working directory itself) to its node. A node that
\* is not readable is one the process has no permission on (mode 000).
File(content, readable) == [kind |-> "file", content |-> content, readable |-> readable]
Dir(readable) == [kind |-> "dir", content |-> <<>>, readable |-> readable]

\* How the host resolves a path argument: relative to the working directory.
\* A ".." segment and an absolute path leave the modelled tree; no path of the
\* model has them.
Resolve(p) == Segments(p)

Exists(fs, path) == path \in DOMAIN fs
IsDir(fs, path) == Exists(fs, path) /\ fs[path].kind = "dir"
IsFile(fs, path) == Exists(fs, path) /\ fs[path].kind = "file"
Parent(path) == Take(path, Len(path) - 1)
Children(fs, path) ==
  {q \in DOMAIN fs : Len(q) = Len(path) + 1 /\ Take(q, Len(path)) = path}

\* An error thrown by fs: its code ("" for a TypeError) and its message.
ErrnoText(code) ==
  IF code = "ENOENT" THEN <<"E","N","O","E","N","T",":"," ","n","o"," ","s","u","c","h"," ","f","i","l","e"," ","o","r"," ","d","i","r","e","c","t","o","r","y">>
  ELSE IF code = "ENOTDIR" THEN <<"E","N","O","T","D","I","R",":"," ","n","o","t"," ","a"," ","d","i","r","e","c","t","o","r","y">>
  ELSE IF code = "EISDIR" THEN <<"E","I","S","D","I","R",":"," ","i","l","l","e","g","a","l"," ","o","p","e","r","a","t","i","o","n"," ","o","n"," ","a"," ","d","i","r","e","c","t","o","r","y">>
  ELSE IF code = "EACCES" THEN <<"E","A","C","C","E","S",":"," ","p","e","r","m","i","s","s","i","o","n"," ","d","e","n","i","e","d">>
  ELSE IF code = "ENOTEMPTY" THEN <<"E","N","O","T","E","M","P","T","Y",":"," ","d","i","r","e","c","t","o","r","y"," ","n","o","t"," ","e","m","p","t","y">>
  ELSE IF code = "EEXIST" THEN <<"E","E","X","I","S","T",":"," ","f","i","l","e"," ","a","l","r","e","a","d","y"," ","e","x","i","s","t","s">>
  ELSE IF code = "EINVAL" THEN <<"E","I","N","V","A","L",":"," ","i","n","v","a","l","i","d"," ","a","r","g","u","m","e","n","t">>
  ELSE <<"E","B","A","D","F",":"," ","b","a","d"," ","f","i","l","e"," ","d","e","s","c","r","i","p","t","o","r">>

NoError == [code |-> "", message |-> <<>>, thrown |-> FALSE]
SystemError(code, syscall, p) ==
  [code |-> code, thrown |-> TRUE,
   message |-> ErrnoText(code) \o <<","," ">> \o syscall \o <<" ","'">> \o p \o <<"'">>]
\* An error of a call on a file descriptor: its message names no path.
DescriptorError(code, syscall) ==
  [code |-> code, thrown |-> TRUE, message |-> ErrnoText(code) \o <<","," ">> \o syscall]
TypeError(message) == [code |-> "", message |-> message, thrown |-> TRUE]

InvalidPath(v) ==
  TypeError(<<"T","h","e"," ","\"","p","a","t","h","\""," ","a","r","g","u","m","e","n","t"," ","m","u","s","t"," ","b","e"," ","o","f"," ","t","y","p","e"," ","s","t","r","i","n","g","."," ","R","e","c","e","i","v","e","d"," ">> \o JsToString(v))
InvalidData(v) ==
  TypeError(<<"T","h","e"," ","\"","d","a","t","a","\""," ","a","r","g","u","m","e","n","t"," ","m","u","s","t"," ","b","e"," ","o","f"," ","t","y","p","e"," ","s","t","r","i","n","g","."," ","R","e","c","e","i","v","e","d"," ">> \o JsToString(v))

\* The error of walking to the directory that holds path: a missing ancestor
\* (ENOENT), an ancestor that is a file (ENOTDIR) or one that may not be
\* searched (EACCES); "" when the walk succeeds.
RECURSIVE WalkError(_, _, _)
WalkError(fs, path, k) ==
  IF k >= Len(path) THEN ""
  ELSE LET anc == Take(path, k)
       IN IF ~Exists(fs, anc) THEN "ENOENT"
          ELSE IF fs[anc].kind # "dir" THEN "ENOTDIR"
          ELSE IF ~fs[anc].readable THEN "EACCES"
          ELSE WalkError(fs, path, k + 1)

\* The last component of p, trailing slashes ignored, is ".".
LastDot(p) ==
  LET Last(segs) == segs # <<>> /\ segs[Len(segs)] = <<".">>
  IN Last(SelectSeq(Split(p, <<"/">>), LAMBDA seg : seg # <<>>))

\* p ends in a slash or in a "." component after a slash: what it names has
\* to be a directory.
NamesDirectory(p) ==
  LET Open(parts) == Len(parts) > 1 /\ parts[Len(parts)] \in {<<>>, <<".">>}
  IN Open(Split(p, <<"/">>))

\* The error code of opening the node at the path named p, "" when it exists.
LookupError(fs, p) ==
  IF p = <<>> THEN "ENOENT"
  ELSE LET Found(path, w) ==
             IF w # "" THEN w
             ELSE IF ~Exists(fs, path) THEN "ENOENT"
             ELSE IF fs[path].kind = "file" /\ NamesDirectory(p) THEN "ENOTDIR"
             ELSE ""
       IN Found(Resolve(p), WalkError(fs, Resolve(p), 0))

\* fs.statSync(p)
statSync(fs, v) ==
  IF v.t # "str" THEN [err |-> InvalidPath(v), kind |-> ""]
  ELSE LET Stat(e) ==
             IF e # "" THEN [err |-> SystemError(e, <<"s","t","a","t">>, v.s), kind |-> ""]
             ELSE [err |-> NoError, kind |-> fs[Resolve(v.s)].kind]
       IN Stat(LookupError(fs, v.s))

\* fs.readFileSync(p, "utf-8"). A number names a file descriptor, none of
\* which is open for the model's numbers.
readFileSync(fs, v) ==
  IF v.t = "num" THEN [err |-> DescriptorError("EBADF", <<"f","s","t","a","t">>), data |-> <<>>]
  ELSE IF v.t # "str" THEN [err |-> InvalidPath(v), data |-> <<>>]
  ELSE LET Read(e, path) ==
             IF e # "" THEN [err |-> SystemError(e, <<"o","p","e","n">>, v.s), data |-> <<>>]
             ELSE IF fs[path].kind = "dir"
             THEN [err |-> DescriptorError("EISDIR", <<"r","e","a","d">>), data |-> <<>>]
             ELSE IF ~fs[path].readable
             THEN [err |-> SystemError("EACCES", <<"o","p","e","n">>, v.s), data |-> <<>>]
             ELSE [err |-> NoError, data |-> fs[path].content]
       IN Read(LookupError(fs, v.s), Resolve(v.s))

\* The order in which readdir returns the names of a directory: the host's; in
\* the model the order of the characters in CharOrder, shorter names first
\* among names that agree.
CharOrder == <<"\n"," ","$","&","'","(",")","*","+","-",".","/","0","1","2","3","4","5","6","7","8","9",":","?","A","B","C","D","E","F","G","H","I","J","K","L","M","N","O","P","Q","R","S","T","U","V","W","X","Y","Z","[","\\","]","^","_","a","b","c","d","e","f","g","h","i","j","k","l","m","n","o","p","q","r","s","t","u","v","w","x","y","z","{","|","}">>
CharRank(c) ==
  IF \E i \in 1..Len(CharOrder) : CharOrder[i] = c
  THEN CHOOSE i \in 1..Len(CharOrder) : CharOrder[i] = c
  ELSE 0

RECURSIVE NameBefore(_, _)
NameBefore(a, b) ==
  IF a = <<>> THEN b # <<>>
  ELSE IF b = <<>> THEN FALSE
  ELSE IF a[1] # b[1] THEN CharRank(a[1]) < CharRank(b[1])
  ELSE NameBefore(Tail(a), Tail(b))

RECURSIVE SortNames(_)
SortNames(S) ==
  IF S = {} THEN <<>>
  ELSE LET first == CHOOSE a \in S : \A b \in S \ {a} : NameBefore(a, b)
       IN <<first>> \o SortNames(S \ {first})

\* fs.readdirSync(dir): the names of the entries.
readdirSync(fs, dir) ==
  LET Scan(e, path) ==
        IF e # "" THEN [err |-> SystemError(e, <<"s","c","a","n","d","i","r">>, dir), names |-> <<>>]
        ELSE IF fs[path].kind # "dir"
        THEN [err |-> SystemError("ENOTDIR", <<"s","c","a","n","d","i","r">>, dir), names |-> <<>>]
        ELSE IF ~fs[path].readable
        THEN [err |-> SystemError("EACCES", <<"s","c","a","n","d","i","r">>, dir), names |-> <<>>]
        ELSE [err |-> NoError,
              names |-> SortNames({q[Len(q)] : q \in Children(fs, path)})]
  IN Scan(LookupError(fs, dir), Resolve(dir))

\* fs with the node at path set to node.
Put(fs, path, node) ==
  [q \in (DOMAIN fs) \cup {path} |-> IF q = path THEN node ELSE fs[q]]

\* fs without the node at path.
Remove(fs, path) == [q \in (DOMAIN fs) \ {path} |-> fs[q]]

\* fs.mkdirSync(dir, {recursive: true}): every missing directory on the way to
\* dir is made, an existing one is left alone; a file on the way is an error,
\* met before anything below it is made.
RECURSIVE MkdirFrom(_, _, _, _)
MkdirFrom(fs, dir, path, k) ==
  IF k > Len(path) THEN [err |-> NoError, fs |-> fs]
  ELSE LET Step(anc) ==
             IF ~Exists(fs, anc) THEN MkdirFrom(Put(fs, anc, Dir(TRUE)), dir, path, k + 1)
             ELSE IF fs[anc].kind # "dir"
             THEN [err |-> SystemError(IF k = Len(path) THEN "EEXIST" ELSE "ENOTDIR",
                                       <<"m","k","d","i","r">>, dir),
                   fs |-> fs]
             ELSE IF k < Len(path) /\ ~fs[anc].readable
             THEN [err |-> SystemError("EACCES", <<"m","k","d","i","r">>, dir), fs |-> fs]
             ELSE MkdirFrom(fs, dir, path, k + 1)
       IN Step(Take(path, k))

mkdirSync(fs, dir) ==
  IF dir = <<>> THEN [err |-> SystemError("ENOENT", <<"m","k","d","i","r">>, dir), fs |-> fs]
  ELSE MkdirFrom(fs, dir, Resolve(dir), 1)

\* ------------------------------------------------------------------- UTF-8
\* A text is a sequence of UTF-16 code units. A code unit of ASCII is its
\* character; the others of the model are named by their code: U+00E9 (two
\* bytes in UTF-8), U+20AC and U+FFFD (three bytes), and the surrogates U+D83D
\* (high) and U+DE00 (low), which as a pair are U+1F600 (four bytes).
HighSurrogates == {"U+D83D"}
LowSurrogates == {"U+DE00"}

\* The bytes of one code unit that is not part of a pair. A surrogate without
\* its partner has no encoding: the encoder writes U+FFFD for it.
Utf8Bytes(c) ==
  IF c = "U+00E9" THEN <<"C3", "A9">>
  ELSE IF c = "U+20AC" THEN <<"E2", "82", "AC">>
  ELSE IF c \in HighSurrogates \cup LowSurrogates \cup {"U+FFFD"} THEN <<"EF", "BF", "BD">>
  ELSE <<c>>

\* The bytes "utf-8" turns a string into (fs.writeFileSync, Buffer.byteLength).
RECURSIVE Utf8Encode(_)
Utf8Encode(s) ==
  IF s = <<>> THEN <<>>
  ELSE IF Len(s) >= 2 /\ s[1] \in HighSurrogates /\ s[2] \in LowSurrogates
  THEN <<"F0", "9F", "98", "80">> \o Utf8Encode(Drop(s, 2))
  ELSE Utf8Bytes(s[1]) \o Utf8Encode(Tail(s))

\* The string "utf-8" turns the bytes of a file into (fs.readFileSync); the
\* bytes are ones the encoder wrote.
RECURSIVE Utf8Decode(_)
Utf8Decode(b) ==
  IF b = <<>> THEN <<>>
  ELSE IF b[1] = "C3" THEN <<"U+00E9">> \o Utf8Decode(Drop(b, 2))
  ELSE IF b[1] = "E2" THEN <<"U+20AC">> \o Utf8Decode(Drop(b, 3))
  ELSE IF b[1] = "EF" THEN <<"U+FFFD">> \o Utf8Decode(Drop(b, 3))
  ELSE IF b[1] = "F0" THEN <<"U+D83D", "U+DE00">> \o Utf8Decode(Drop(b, 4))
  ELSE <<b[1]>> \o Utf8Decode(Tail(b))

\* fs.writeFileSync(p, data, "utf-8"): the data is validated before the file
\* is opened; the file is created or truncated and holds the bytes of data
\* afterwards. A file of the model holds the text its bytes decode to.
writeFileSync(fs, v, data) ==
  IF data.t # "str" THEN [err |-> InvalidData(data), fs |-> fs]
  ELSE IF v.t = "num" THEN [err |-> DescriptorError("EBADF", <<"w","r","i","t","e">>), fs |-> fs]
  ELSE IF v.t # "str" THEN [err |-> InvalidPath(v), fs |-> fs]
  ELSE LET Write(path, w) ==
             IF w # "" THEN [err |-> SystemError(w, <<"o","p","e","n">>, v.s), fs |-> fs]
             ELSE IF IsDir(fs, path)
             THEN [err |-> SystemError("EISDIR", <<"o","p","e","n">>, v.s), fs |-> fs]
             ELSE IF IsFile(fs, path) /\ ~fs[path].readable
             THEN [err |-> SystemError("EACCES", <<"o","p","e","n">>, v.s), fs |-> fs]
             ELSE [err |-> NoError,
                   fs |-> Put(fs, path, File(Utf8Decode(Utf8Encode(data.s)), TRUE))]
       IN Write(Resolve(v.s),
                IF v.s = <<>> THEN "ENOENT" ELSE WalkError(fs, Resolve(v.s), 0))

\* fs.unlinkSync(p), called on a path stat found to be a file.
unlinkSync(fs, p) ==
  LET Unlink(e, path) ==
        IF e # "" THEN [err |-> SystemError(e, <<"u","n","l","i","n","k">>, p), fs |-> fs]
        ELSE IF fs[path].kind = "dir"
        THEN [err |-> SystemError("EISDIR", <<"u","n","l","i","n","k">>, p), fs |-> fs]
        ELSE [err |-> NoError, fs |-> Remove(fs, path)]
  IN Unlink(LookupError(fs, p), Resolve(p))

\* A removal that takes the directory together with everything below it.
rmdirSyncRecursive(fs, p) ==
  LET Rmdir(e, path) ==
        IF e # "" THEN [err |-> SystemError(e, <<"r","m","d","i","r">>, p), fs |-> fs]
        ELSE IF fs[path].kind # "dir"
        THEN [err |-> SystemError("ENOTDIR", <<"r","m","d","i","r">>, p), fs |-> fs]
        ELSE IF path = <<>> \/ LastDot(p)
        THEN [err |-> SystemError("EINVAL", <<"r","m","d","i","r">>, p), fs |-> fs]
        ELSE [err |-> NoError,
              fs |-> [q \in {r \in DOMAIN fs : Len(r) < Len(path) \/ Take(r, Len(path)) # path} |-> fs[q]]]
  IN Rmdir(LookupError(fs, p), Resolve(p))

\* fs.rmdirSync(p): only an empty directory, and never one named by a path
\* whose last component is "." (the working directory as "." among them).
rmdirSync(fs, p) ==
  LET Rmdir(e, path) ==
        IF e # "" THEN [err |-> SystemError(e, <<"r","m","d","i","r">>, p), fs |-> fs]
        ELSE IF fs[path].kind # "dir"
        THEN [err |-> SystemError("ENOTDIR", <<"r","m","d","i","r">>, p), fs |-> fs]
        ELSE IF path = <<>> \/ LastDot(p)
        THEN [err |-> SystemError("EINVAL", <<"r","m","d","i","r">>, p), fs |-> fs]
        ELSE IF Children(fs, path) # {}
        THEN [err |-> SystemError("ENOTEMPTY", <<"r","m","d","i","r">>, p), fs |-> fs]
        ELSE [err |-> NoError, fs |-> Remove(fs, path)]
  IN Rmdir(LookupError(fs, p), Resolve(p))

\* -------------------------------------------------------------------- tools
\* What a tool call does: the filesystem it leaves, the string it returns,
\* and fault = TRUE when it throws instead of returning (ret is then unused).
Returned(fs, ret) == [fs |-> fs, ret |-> ret, fault |-> FALSE]
Thrown(fs) == [fs |-> fs, ret |-> <<>>, fault |-> TRUE]

\* `p && p.trim()`: calling trim on a true value that is no string throws.
TrimThrows(v) == Truthy(v) /\ v.t # "str"

\* `p && p.trim() ? p : "."`
OrDot(v) == IF Truthy(v) /\ Trim(v.s) # <<>> THEN v.s ELSE <<".">>

\* A parameter with the default value ".": the default replaces undefined.
DefaultDot(v) == IF v.t = "undefined" THEN JsStr(<<".">>) ELSE v

readFileTool(fs, p) ==
  LET Result(r) ==
        IF ~r.err.thrown THEN Returned(fs, r.data)
        ELSE IF r.err.code = "ENOENT"
        THEN Returned(fs, <<"E","r","r","o","r",":"," ","F","i","l","e"," ","n","o","t"," ","f","o","u","n","d",":"," ">> \o JsToString(p))
        ELSE Returned(fs, <<"E","r","r","o","r"," ","r","e","a","d","i","n","g"," ","f","i","l","e",":"," ">> \o r.err.message)
  IN Result(readFileSync(fs, p))

listDirectoryTool(fs, p0) ==
  LET Result(dir, r) ==
        IF ~r.err.thrown THEN Returned(fs, Join(r.names, <<"\n">>))
        ELSE IF r.err.code = "ENOENT"
        THEN Returned(fs, <<"E","r","r","o","r",":"," ","D","i","r","e","c","t","o","r","y"," ","n","o","t"," ","f","o","u","n","d",":"," ">> \o dir)
        ELSE Returned(fs, <<"E","r","r","o","r"," ","l","i","s","t","i","n","g"," ","d","i","r","e","c","t","o","r","y",":"," ">> \o r.err.message)
      List(dir) == Result(dir, readdirSync(fs, dir))
  IN IF TrimThrows(DefaultDot(p0)) THEN Thrown(fs)
     ELSE List(OrDot(DefaultDot(p0)))

\* walkFiles: the regular files below rootDir, each directory's entries in
\* readdir order, a directory's files in place of the directory; a directory
\* that cannot be listed contributes nothing.
RECURSIVE walk(_, _)
RECURSIVE walkEntries(_, _, _)
walkEntries(fs, current, names) ==
  IF names = <<>> THEN <<>>
  ELSE LET Entry(full, node) ==
             IF node.kind = "dir" THEN walk(fs, full)
             ELSE IF node.kind = "file" THEN <<full>>
             ELSE <<>>
       IN Entry(PathJoin(current, names[1]), fs[Append(Resolve(current), names[1])])
          \o walkEntries(fs, current, Tail(names))

walk(fs, current) ==
  LET Listed(r) == IF r.err.thrown THEN <<>> ELSE walkEntries(fs, current, r.names)
  IN Listed(readdirSync(fs, current))

walkFiles(fs, rootDir) == walk(fs, rootDir)

\* content.split(/\r?\n/): the text is cut at every "\n", and a "\r" right
\* before the "\n" goes with it. cuts holds the positions of the "\n", with 0
\* before and Len(s) + 1 after them.
LinesBetween(s, cuts) ==
  [k \in 1..(Len(cuts) - 1) |->
     IF k < Len(cuts) - 1 /\ cuts[k + 1] - 1 > cuts[k] /\ s[cuts[k + 1] - 1] = "\r"
     THEN SubSeq(s, cuts[k] + 1, cuts[k + 1] - 2)
     ELSE SubSeq(s, cuts[k] + 1, cuts[k + 1] - 1)]

SplitLines(s) ==
  LinesBetween(s, <<0>> \o SelectSeq([i \in 1..Len(s) |-> i], LAMBDA i : s[i] = "\n")
                  \o <<Len(s) + 1>>)

\* The cap on the results of one search.
MaxResults == 50

TruncationMarker == <<".",".","."," ","(","t","r","u","n","c","a","t","e","d",","," ","m","o","r","e"," ","r","e","s","u","l","t","s"," ","a","v","a","i","l","a","b","l","e",")">>

\* A numbering of the lines that starts at 0.
LineNumberFromZero(i) == i

\* `i + 1`: the number a result line gives the line at the 0-based index i.
LineNumber(i) == i + 1

\* The state of the loops of searchTool: the results array, and whether the
\* return inside the inner loop was taken.
Scanning(results) == [results |-> results, truncated |-> FALSE]
Truncated(results) == [results |-> results, truncated |-> TRUE]

\* One pass of the inner loop, for the line at the 0-based index i: a matching
\* line is pushed, and the push that fills the cap pushes the marker too and
\* returns.
scanLine(lines, i, filePath, regex, st) ==
  LET Pushed(results) ==
        IF Len(results) >= MaxResults THEN Truncated(Append(results, TruncationMarker))
        ELSE Scanning(results)
  IN IF RegExpTest(regex, lines[i + 1])
     THEN Pushed(Append(st.results,
                        filePath \o <<":">> \o Dec(LineNumber(i)) \o <<":"," ">> \o lines[i + 1]))
     ELSE st

\* The inner loop of searchTool for the 0-based indexes lo..hi-1, in order:
\* the passes for the first half of them, then those for the second half; no
\* pass runs after the return.
RECURSIVE scanLines(_, _, _, _, _, _)
scanLines(lines, lo, hi, filePath, regex, st) ==
  IF st.truncated \/ lo >= hi THEN st
  ELSE IF hi = lo + 1 THEN scanLine(lines, lo, filePath, regex, st)
  ELSE scanLines(lines, (lo + hi) \div 2, hi, filePath, regex,
                 scanLines(lines, lo, (lo + hi) \div 2, filePath, regex, st))

\* The loop over the lines of one file.
scanContent(content, filePath, regex, results) ==
  LET Loop(lines) == scanLines(lines, 0, Len(lines), filePath, regex, Scanning(results))
  IN Loop(SplitLines(content))

\* A catch block that reports the file it could not read.
readFailedReported(results, filePath) == Append(results, filePath \o <<":"," ","u","n","r","e","a","d","a","b","l","e">>)

\* `catch { continue; }` around the read of a file: the results stay as they
\* are and the loop goes on with the next file.
readFailed(results, filePath) == results

\* The outer loop of searchTool over the files: the results array when the
\* loop ends, and the files read on the way, in order.
RECURSIVE scanFiles(_, _, _, _, _, _)
scanFiles(fs, files, regex, fileFilter, results, opened) ==
  IF files = <<>> THEN [results |-> results, opened |-> opened]
  ELSE LET Scanned(s, seen) ==
             IF s.truncated THEN [results |-> s.results, opened |-> seen]
             ELSE scanFiles(fs, Tail(files), regex, fileFilter, s.results, seen)
           Read(filePath, r, seen) ==
             IF r.err.thrown
             THEN scanFiles(fs, Tail(files), regex, fileFilter,
                            readFailed(results, filePath), seen)
             ELSE Scanned(scanContent(r.data, filePath, regex, results), seen)
           File1(filePath) ==
             IF fileFilter.on /\ ~RegExpTest(fileFilter.re, Basename(filePath))
             THEN scanFiles(fs, Tail(files), regex, fileFilter, results, opened)
             ELSE Read(filePath, readFileSync(fs, JsStr(filePath)), Append(opened, filePath))
       IN File1(files[1])

\* new RegExp(pattern, "i") for a pattern argument: undefined is the empty
\* pattern, anything else its text.
PatternText(pattern) == IF pattern.t = "undefined" THEN <<>> ELSE JsToString(pattern)

\* `filePattern && filePattern.trim()` then globToRegExp(filePattern.trim())
FileFilter(filePattern) ==
  IF Truthy(filePattern) /\ Trim(filePattern.s) # <<>>
  THEN [on |-> TRUE, re |-> globToRegExp(Trim(filePattern.s))]
  ELSE [on |-> FALSE, re |-> RegExpNew(<<>>)]

\* searchTool up to its return: the results array and the files it read.
searchScan(fs, pattern, p, filePattern) ==
  scanFiles(fs, walkFiles(fs, OrDot(DefaultDot(p))), RegExpNew(PatternText(pattern)),
            FileFilter(filePattern), <<>>, <<>>)

searchTool(fs, pattern, p0, filePattern) ==
  LET Result(results) ==
        IF Len(results) = 0 THEN Returned(fs, <<"N","o"," ","m","a","t","c","h","e","s"," ","f","o","u","n","d">>)
        ELSE Returned(fs, Join(results, <<"\n">>))
  IN IF TrimThrows(DefaultDot(p0)) THEN Thrown(fs)
     ELSE IF ~RegExpNew(PatternText(pattern)).ok
     THEN Returned(fs, <<"I","n","v","a","l","i","d"," ","r","e","g","e","x"," ","p","a","t","t","e","r","n",":"," ","I","n","v","a","l","i","d"," ","r","e","g","u","l","a","r"," ","e","x","p","r","e","s","s","i","o","n",":"," ","/">>
                       \o PatternText(pattern) \o <<"/">>)
     ELSE IF TrimThrows(filePattern) THEN Thrown(fs)
     ELSE Result(searchScan(fs, pattern, p0, filePattern).results)

\* A count of the UTF-16 code units of the text.
characterCount(s) == Len(s)

\* Buffer.byteLength(content, "utf-8")
byteLength(s) == Len(Utf8Encode(s))

writeFileTool(fs, p, content) ==
  LET Written(w) ==
        IF w.err.thrown THEN Returned(w.fs, <<"E","r","r","o","r"," ","w","r","i","t","i","n","g"," ","f","i","l","e",":"," ">> \o w.err.message)
        ELSE Returned(w.fs, <<"S","u","c","c","e","s","s","f","u","l","l","y"," ","w","r","o","t","e"," ">> \o Dec(byteLength(content.s))
                            \o <<" ","b","y","t","e","s"," ","t","o"," ">> \o p.s)
      Made(m) ==
        IF m.err.thrown THEN Returned(m.fs, <<"E","r","r","o","r"," ","w","r","i","t","i","n","g"," ","f","i","l","e",":"," ">> \o m.err.message)
        ELSE Written(writeFileSync(m.fs, p, content))
  IN IF p.t # "str" THEN Returned(fs, <<"E","r","r","o","r"," ","w","r","i","t","i","n","g"," ","f","i","l","e",":"," ">> \o InvalidPath(p).message)
     ELSE Made(mkdirSync(fs, Dirname(p.s)))

\* content.split(oldString).length - 1: an undefined separator does not split.
occurrenceCount(content, oldString) ==
  IF oldString.t = "undefined" THEN 0
  ELSE Len(Split(content, JsToString(oldString))) - 1

\* The catch block shared by the fs calls of editFileTool.
editFailed(fs, p, err) ==
  IF err.code = "ENOENT" THEN Returned(fs, <<"E","r","r","o","r",":"," ","F","i","l","e"," ","n","o","t"," ","f","o","u","n","d",":"," ">> \o JsToString(p))
  ELSE Returned(fs, <<"E","r","r","o","r"," ","e","d","i","t","i","n","g"," ","f","i","l","e",":"," ">> \o err.message)

editFileTool(fs, p, oldString, newString) ==
  LET Written(w) ==
        IF w.err.thrown THEN editFailed(fs, p, w.err)
        ELSE Returned(w.fs, <<"S","u","c","c","e","s","s","f","u","l","l","y"," ","e","d","i","t","e","d"," ">> \o JsToString(p))
      Edit(content, idx, count) ==
        IF idx = -1 THEN Returned(fs, <<"E","r","r","o","r",":"," ","o","l","d","_","s","t","r","i","n","g"," ","n","o","t"," ","f","o","u","n","d"," ","i","n"," ">> \o JsToString(p))
        ELSE IF count > 1
        THEN Returned(fs, <<"E","r","r","o","r",":"," ","o","l","d","_","s","t","r","i","n","g"," ","a","p","p","e","a","r","s"," ">> \o Dec(count) \o <<" ","t","i","m","e","s"," ","i","n"," ">>
                          \o JsToString(p) \o <<"."," ","M","u","s","t"," ","b","e"," ","u","n","i","q","u","e",".">>)
        ELSE Written(writeFileSync(fs, p,
               JsStr(Replace(content, JsToString(oldString), JsToString(newString)))))
      Read(r) ==
        IF r.err.thrown THEN editFailed(fs, p, r.err)
        ELSE Edit(r.data, IndexOf(r.data, JsToString(oldString)),
                  occurrenceCount(r.data, oldString))
  IN Read(readFileSync(fs, p))

\* The catch block shared by the fs calls of deleteFileTool.
deleteFailed(fs, p, err) ==
  IF err.code = "ENOENT" THEN Returned(fs, <<"E","r","r","o","r",":"," ","P","a","t","h"," ","n","o","t"," ","f","o","u","n","d",":"," ">> \o JsToString(p))
  ELSE Returned(fs, <<"E","r","r","o","r"," ","d","e","l","e","t","i","n","g",":"," ">> \o err.message)

deleteFileTool(fs, p) ==
  LET Unlinked(u) ==
        IF u.err.thrown THEN deleteFailed(fs, p, u.err)
        ELSE Returned(u.fs, <<"S","u","c","c","e","s","s","f","u","l","l","y"," ","d","e","l","e","t","e","d"," ","f","i","l","e",":"," ">> \o p.s)
      Removed(d) ==
        IF d.err.thrown THEN deleteFailed(fs, p, d.err)
        ELSE Returned(d.fs, <<"S","u","c","c","e","s","s","f","u","l","l","y"," ","d","e","l","e","t","e","d"," ","d","i","r","e","c","t","o","r","y",":"," ">> \o p.s)
      Stat(st) ==
        IF st.err.thrown THEN deleteFailed(fs, p, st.err)
        ELSE IF st.kind = "file" THEN Unlinked(unlinkSync(fs, p.s))
        ELSE IF st.kind = "dir" THEN Removed(rmdirSync(fs, p.s))
        ELSE Returned(fs, <<"E","r","r","o","r",":"," ","P","a","t","h"," ","n","o","t"," ","f","o","u","n","d",":"," ">> \o p.s)
  IN Stat(statSync(fs, p))

ToolNames == {<<"r","e","a","d","_","f","i","l","e">>, <<"l","i","s","t","_","d","i","r","e","c","t","o","r","y">>, <<"s","e","a","r","c","h">>, <<"w","r","i","t","e","_","f","i","l","e">>, <<"e","d","i","t","_","f","i","l","e">>,
              <<"d","e","l","e","t","e","_","f","i","l","e">>}

\* A dispatcher that raises for a name it does not know.
UnknownToolRaises(fs, name) == Thrown(fs)

\* return `Unknown tool: ${name}`
UnknownTool(fs, name) == Returned(fs, <<"U","n","k","n","o","w","n"," ","t","o","o","l",":"," ">> \o name)

\* executeTool: a registered name reads its arguments off args, which throws
\* when args is null; any other name reads nothing.
executeTool(fs, name, args) ==
  IF name \in ToolNames /\ PropertyThrows(args) THEN Thrown(fs)
  ELSE IF name = <<"r","e","a","d","_","f","i","l","e">> THEN readFileTool(fs, Get(args, <<"p","a","t","h">>))
  ELSE IF name = <<"l","i","s","t","_","d","i","r","e","c","t","o","r","y">>
  THEN listDirectoryTool(fs, Coalesce(Get(args, <<"p","a","t","h">>), JsStr(<<".">>)))
  ELSE IF name = <<"s","e","a","r","c","h">>
  THEN searchTool(fs, Get(args, <<"p","a","t","t","e","r","n">>), Coalesce(Get(args, <<"p","a","t","h">>), JsStr(<<".">>)),
                  Get(args, <<"f","i","l","e","_","p","a","t","t","e","r","n">>))
  ELSE IF name = <<"w","r","i","t","e","_","f","i","l","e">> THEN writeFileTool(fs, Get(args, <<"p","a","t","h">>), Get(args, <<"c","o","n","t","e","n","t">>))
  ELSE IF name = <<"e","d","i","t","_","f","i","l","e">>
  THEN editFileTool(fs, Get(args, <<"p","a","t","h">>), Get(args, <<"o","l","d","_","s","t","r","i","n","g">>), Get(args, <<"n","e","w","_","s","t","r","i","n","g">>))
  ELSE IF name = <<"d","e","l","e","t","e","_","f","i","l","e">> THEN deleteFileTool(fs, Get(args, <<"p","a","t","h">>))
  ELSE UnknownTool(fs, name)

\* ------------------------------------------------- the two-tool build
\* src/agent.ts declares read_file and list_directory only, and its handlers
\* have no try block: whatever fs throws, the handler throws.
readFile(fs, path) ==
  LET Result(r) == IF r.err.thrown THEN Thrown(fs) ELSE Returned(fs, r.data)
  IN Result(readFileSync(fs, path))

listDirectory(fs, path0) ==
  LET Result(r) ==
        IF r.err.thrown THEN Thrown(fs) ELSE Returned(fs, Join(r.names, <<"\n">>))
  IN IF DefaultDot(path0).t # "str" THEN Thrown(fs)
     ELSE Result(readdirSync(fs, DefaultDot(path0).s))

\* The if-chain in the loop of run in src/agent.ts.
dispatchInline(fs, name, args) ==
  IF name \in {<<"r","e","a","d","_","f","i","l","e">>, <<"l","i","s","t","_","d","i","r","e","c","t","o","r","y">>} /\ PropertyThrows(args) THEN Thrown(fs)
  ELSE IF name = <<"r","e","a","d","_","f","i","l","e">> THEN readFile(fs, Get(args, <<"p","a","t","h">>))
  ELSE IF name = <<"l","i","s","t","_","d","i","r","e","c","t","o","r","y">>
  THEN listDirectory(fs, Coalesce(Get(args, <<"p","a","t","h">>), JsStr(<<".">>)))
  ELSE Returned(fs, <<"U","n","k","n","o","w","n"," ","t","o","o","l">>)

\* ------------------------------------------------------------------- state
VARIABLES
  pc,          \* "prompt": rl.question waits for a line; "invoking": run awaits
               \* client.chat.completions.create; "executing": run is in its
               \* loop over msg.tool_calls; "faulted": run threw
  input,       \* the line the REPL read last (promptText of the run)
  messages,    \* the messages array of run
  request,     \* the messages the Model Client was last invoked with
  msg,         \* response.choices[0].message of the current turn
  tcIndex,     \* the index in msg.tool_calls of the call the loop is at
  fs,          \* the filesystem below the working directory
  stdout,      \* what console.log printed last
  turn,        \* the model invocations of the current run so far
  invocations, \* the model invocations of the session so far
  issued,      \* the tool calls the Model Client has sent so far: the next id
  program,     \* which of the two builds runs: "part_000" or "agent.ts"
  h            \* the harness of the tool specifications (unused by Spec)

vars == <<pc, input, messages, request, msg, tcIndex, fs, stdout, turn, invocations,
          issued, program, h>>

\* -------------------------------------------------------------- conversation
NoCalls == [present |-> FALSE, list |-> <<>>]
Calls(list) == [present |-> TRUE, list |-> list]

Message(role, content, tool_calls, tool_call_id) ==
  [role |-> role, content |-> content, tool_calls |-> tool_calls,
   tool_call_id |-> tool_call_id]

\* { role: "user", content: promptText }
UserMessage(promptText) == Message("user", JsStr(promptText), NoCalls, 0)

\* { role: "tool", tool_call_id: tc.id, content: result }
ToolMessage(id, result) == Message("tool", JsStr(result), NoCalls, id)

ToolCall(id, name, arguments) == [id |-> id, name |-> name, arguments |-> arguments]

\* A conversation that is never started anew: the line is added to whatever
\* the run before left.
NewConversationKeeping(previous, promptText) == Append(previous, UserMessage(promptText))

\* `const messages = [{ role: "user", content: promptText }]`: a new array at
\* every call of run, whatever an earlier run left behind.
NewConversation(previous, promptText) == <<UserMessage(promptText)>>

\* A push that puts the message before the ones the array holds.
PushFront(conversation, m) == <<m>> \o conversation

\* messages.push(m)
Push(conversation, m) == Append(conversation, m)

\* `!msg.tool_calls`: true when the property is absent; an array, the empty
\* one included, is a true value.
NoToolCalls(m) == ~m.tool_calls.present

\* result.slice(0, 100) and the "..." of the echoed preview.
PreviewLength == 100
Preview(result) ==
  <<" "," ","-",">"," ">> \o Take(result, IF Len(result) > PreviewLength THEN PreviewLength ELSE Len(result))
  \o (IF Len(result) > PreviewLength THEN <<".",".",".">> ELSE <<>>) \o <<"\n">>

\* console.log(msg.content)
Printed(kind, text) == [kind |-> kind, text |-> text]

\* ------------------------------------------------------- the Model Client
\* The two builds of the repository: the six-tool agent and src/agent.ts.
Programs == {"part_000", "agent.ts"}

\* What the lines of the user and the responses of the model are drawn from.
Lines == {<<>>, <<" ">>, <<"a">>, <<"b">>}

InitialFs ==
  [q \in {<<>>, <<<<"a">>>>} |-> IF q = <<>> THEN Dir(TRUE) ELSE File(<<"x">>, TRUE)]

\* The calls a response can carry: a tool name and the text of its arguments.
CallMenu == {
  [name |-> <<"r","e","a","d","_","f","i","l","e">>, arguments |-> <<"{","\"","p","a","t","h","\"",":","\"","a","\"","}">>],
  [name |-> <<"w","r","i","t","e","_","f","i","l","e">>, arguments |-> <<"{","\"","p","a","t","h","\"",":","\"","a","\"",",","\"","c","o","n","t","e","n","t","\"",":","\"","y","\"","}">>],
  [name |-> <<"e","d","i","t","_","f","i","l","e">>, arguments |-> <<"{","\"","p","a","t","h","\"",":","\"","a","\"",",","\"","o","l","d","_","s","t","r","i","n","g","\"",":","\"","x","\"",",","\"","n","e","w","_","s","t","r","i","n","g","\"",":","\"","z","\"","}">>],
  [name |-> <<"d","e","l","e","t","e","_","f","i","l","e">>, arguments |-> <<"{","\"","p","a","t","h","\"",":","\"","a","\"","}">>],
  [name |-> <<"l","i","s","t","_","d","i","r","e","c","t","o","r","y">>, arguments |-> <<"{","}">>],
  [name |-> <<"s","e","a","r","c","h">>, arguments |-> <<"{","\"","p","a","t","t","e","r","n","\"",":","\"","x","\"","}">>],
  [name |-> <<"n","o","p","e">>, arguments |-> <<"{","}">>],
  [name |-> <<"n","o","p","e">>, arguments |-> <<"n","u","l","l">>],
  [name |-> <<"r","e","a","d","_","f","i","l","e">>, arguments |-> <<"{","\"","p","a","t","h","\"",":","\"","q","\"","}">>],
  [name |-> <<"r","e","a","d","_","f","i","l","e">>, arguments |-> <<"{","\"","p","a","t","h","\"",":">>],
  [name |-> <<"r","e","a","d","_","f","i","l","e">>, arguments |-> <<"n","u","l","l">>]}

\* Sequences of length n over the set S.
RECURSIVE Tuples(_, _)
Tuples(S, n) ==
  IF n = 0 THEN {<<>>}
  ELSE {Append(t, x) : t \in Tuples(S, n - 1), x \in S}

\* The Model Client gives every tool call an identifier of its own.
WithIds(calls, base) ==
  [i \in 1..Len(calls) |-> ToolCall(base + i, calls[i].name, calls[i].arguments)]

\* The responses the model may give once `used` tool calls were issued: a
\* plain text, or up to the rest of MaxCalls tool calls (possibly none, as an
\* empty array) with no text.
Responses(used) ==
  {Message("assistant", JsStr(<<"o","k">>), NoCalls, 0)}
  \cup {Message("assistant", JsNull, Calls(WithIds(calls, used)), 0) :
          calls \in UNION {Tuples(CallMenu, n) : n \in 0..(MaxCalls - used)}}

\* ------------------------------------------------------------------ actions
Init ==
  /\ pc = "prompt"
  /\ input = <<>>
  /\ messages = <<>>
  /\ request = <<>>
  /\ msg = Message("assistant", JsNull, NoCalls, 0)
  /\ tcIndex = 0
  /\ fs = InitialFs
  /\ stdout = Printed("none", <<>>)
  /\ turn = 0
  /\ invocations = 0
  /\ issued = 0
  /\ program \in Programs
  /\ h = [kind |-> "none"]

\* client.chat.completions.create({ model, messages, tools }) at the top of
\* the loop of run: the request carries the array as it is now.
Invoke(conversation) ==
  /\ request' = conversation
  /\ turn' = turn + 1
  /\ invocations' = invocations + 1
  /\ pc' = "invoking"

\* prompt: rl.question's callback on a line that is blank after trimming asks
\* again without calling run.
BlankLine ==
  /\ pc = "prompt"
  /\ \E line \in Lines :
       /\ Trim(line) = <<>>
       /\ input' = line
  /\ UNCHANGED <<pc, messages, request, msg, tcIndex, fs, stdout, turn, invocations,
                 issued, program, h>>

\* A callback of rl.question that is registered again before run returns: a
\* line starts a run while another is active.
StartRunWhileBusy ==
  /\ pc \in {"prompt", "invoking", "executing"}
  /\ invocations < MaxInvocations
  /\ \E line \in Lines :
       /\ Trim(line) # <<>>
       /\ input' = line
       /\ messages' = NewConversation(messages, line)
       /\ request' = NewConversation(messages, line)
       /\ turn' = 1
       /\ invocations' = invocations + 1
       /\ pc' = "invoking"
  /\ UNCHANGED <<msg, tcIndex, fs, stdout, issued, program, h>>

\* prompt and the start of run: a line that is not blank starts a run, which
\* builds its conversation and invokes the model.
StartRun ==
  /\ pc = "prompt"
  /\ invocations < MaxInvocations
  /\ \E line \in Lines :
       /\ Trim(line) # <<>>
       /\ input' = line
       /\ messages' = NewConversation(messages, line)
       /\ request' = NewConversation(messages, line)
       /\ turn' = 1
       /\ invocations' = invocations + 1
       /\ pc' = "invoking"
  /\ UNCHANGED <<msg, tcIndex, fs, stdout, issued, program, h>>

\* run, lines 293-298: the response carries no tool_calls property; its
\* content is printed, run returns and prompt asks for the next line.
FinalAnswer ==
  /\ pc = "invoking"
  /\ \E m \in Responses(issued) :
       /\ NoToolCalls(m)
       /\ msg' = m
       /\ stdout' = Printed("content", JsToString(m.content))
  /\ pc' = "prompt"
  /\ UNCHANGED <<input, messages, request, tcIndex, fs, turn, invocations, issued, program, h>>

\* run, lines 300-301: the response has a tool_calls array; the message is
\* pushed and the loop over the array starts. Over an empty array the loop
\* ends at once and the model is invoked again.
ToolCallsResponse ==
  /\ pc = "invoking"
  /\ \E m \in Responses(issued) :
       /\ ~NoToolCalls(m)
       /\ Len(m.tool_calls.list) = 0 => invocations < MaxInvocations
       /\ msg' = m
       /\ messages' = Push(messages, m)
       /\ issued' = issued + Len(m.tool_calls.list)
       /\ IF Len(m.tool_calls.list) = 0
          THEN /\ Invoke(Push(messages, m))
               /\ tcIndex' = 0
          ELSE /\ pc' = "executing"
               /\ tcIndex' = 1
               /\ UNCHANGED <<request, turn, invocations>>
  /\ UNCHANGED <<input, fs, stdout, program, h>>

\* The Model Client throws (transport, authentication): run does not catch
\* it, and the callback of rl.question ends without calling prompt again.
ModelFault ==
  /\ pc = "invoking"
  /\ pc' = "faulted"
  /\ UNCHANGED <<input, messages, request, msg, tcIndex, fs, stdout, turn, invocations,
                 issued, program, h>>

\* A loop body that catches the SyntaxError of JSON.parse and answers the call
\* with a text.
DecodeCaught(build, tc, files) ==
  LET Decoded(args) ==
        IF ~args.ok THEN Returned(files, <<"E","r","r","o","r",":"," ","i","n","v","a","l","i","d"," ","a","r","g","u","m","e","n","t","s">>)
        ELSE IF build = "agent.ts" THEN dispatchInline(files, tc.name, args.val)
        ELSE executeTool(files, tc.name, args.val)
  IN Decoded(JSONparse(tc.arguments))

\* The body of the loop up to the push of the result: JSON.parse, then the
\* dispatcher of the build. Neither is in a try block: when either throws,
\* run throws.
DecodeAndExecute(build, tc, files) ==
  LET Decoded(args) ==
        IF ~args.ok THEN Thrown(files)
        ELSE IF build = "agent.ts" THEN dispatchInline(files, tc.name, args.val)
        ELSE executeTool(files, tc.name, args.val)
  IN Decoded(JSONparse(tc.arguments))

\* Every call answered from the files as they were before the session, as
\* calls started together on one snapshot would be; its effects are kept.
ExecuteCallOnSnapshot(build, tc, files) ==
  [DecodeAndExecute(build, tc, files) EXCEPT
     !.ret = DecodeAndExecute(build, tc, InitialFs).ret]

\* Every call runs on the filesystem as the calls before it left it.
ExecuteCall(build, tc, files) == DecodeAndExecute(build, tc, files)

\* A loop that ends after its first pass.
LoopEndsEarly(index, calls) == TRUE

\* `for (const tc of msg.tool_calls)`: the loop ends after the last element.
LoopEnds(index, calls) == index >= Len(calls)

\* run, lines 301-312: one pass of the loop over msg.tool_calls; after the last
\* call the while loop invokes the model again.
ExecuteToolCall ==
  /\ pc = "executing"
  /\ \E tc \in {msg.tool_calls.list[tcIndex]} :
     \E out \in {ExecuteCall(program, tc, fs)} :
       IF out.fault
       THEN /\ pc' = "faulted"
            /\ fs' = out.fs
            /\ UNCHANGED <<messages, request, tcIndex, stdout, turn, invocations>>
       ELSE /\ fs' = out.fs
            /\ stdout' = Printed("result", Preview(out.ret))
            /\ messages' = Push(messages, ToolMessage(tc.id, out.ret))
            /\ IF ~LoopEnds(tcIndex, msg.tool_calls.list)
               THEN /\ tcIndex' = tcIndex + 1
                    /\ UNCHANGED <<pc, request, turn, invocations>>
               ELSE /\ tcIndex' = 0
                    /\ Invoke(Push(messages, ToolMessage(tc.id, out.ret)))
  /\ UNCHANGED <<input, msg, issued, program, h>>

Next ==
  \/ BlankLine
  \/ StartRun
  \/ FinalAnswer
  \/ ToolCallsResponse
  \/ ModelFault
  \/ ExecuteToolCall

Spec == Init /\ [][Next]_vars

\* --------------------------------------------------- the tools on their own
\* The specifications below run one tool call of the six-tool build on a
\* filesystem drawn from a bounded family; the REPL stays at its prompt.
session == <<pc, input, messages, request, msg, tcIndex, stdout, turn, invocations,
             issued, program>>

AtPrompt ==
  /\ pc = "prompt"
  /\ input = <<>>
  /\ messages = <<>>
  /\ request = <<>>
  /\ msg = Message("assistant", JsNull, NoCalls, 0)
  /\ tcIndex = 0
  /\ stdout = Printed("none", <<>>)
  /\ turn = 0
  /\ invocations = 0
  /\ issued = 0
  /\ program = "part_000"

\* The decoded arguments of a call: an object of string properties.
Args(fields) == JsObj([k \in DOMAIN fields |-> JsStr(fields[k])])

\* ----------------------------------------------------------------- edit_file
EditContents == StringsUpTo({"a", "b"}, MaxContent)
EditOlds == StringsUpTo({"a", "b"}, MaxOld)
EditNews == StringsUpTo({"a", "$", "&"}, MaxNew)

\* The working directory, holding the file f when present.
EditFs(content, present) ==
  [q \in {<<>>} \cup (IF present THEN {<<<<"f">>>>} ELSE {}) |->
     IF q = <<>> THEN Dir(TRUE) ELSE File(content, TRUE)]

InitEdit ==
  /\ AtPrompt
  /\ \E content \in EditContents, old \in EditOlds, new \in EditNews, present \in BOOLEAN :
       /\ fs = EditFs(content, present)
       /\ h = [kind |-> "edit", stage |-> "ready", before |-> EditFs(content, present),
               old |-> old, new |-> new, ret |-> <<>>, fault |-> FALSE]

\* executeTool("edit_file", { path: "f", old_string, new_string })
EditFile ==
  /\ h.kind = "edit"
  /\ h.stage = "ready"
  /\ \E out \in {executeTool(fs, <<"e","d","i","t","_","f","i","l","e">>,
                   Args((<<"p","a","t","h">> :> <<"f">>) @@ (<<"o","l","d","_","s","t","r","i","n","g">> :> h.old)
                        @@ (<<"n","e","w","_","s","t","r","i","n","g">> :> h.new)))} :
       /\ fs' = out.fs
       /\ h' = [h EXCEPT !.stage = "done", !.ret = out.ret, !.fault = out.fault]
  /\ UNCHANGED session

NextEdit == EditFile

SpecEdit == InitEdit /\ [][NextEdit]_vars

\* ------------------------------------------------------ search, file_pattern
GlobTexts == StringsUpTo({"a", "A", "*", "?", "."}, MaxGlob) \ {<<>>}
BaseNames == StringsUpTo({"a", "b", ".", "\n"}, MaxName) \ {<<>>, <<".">>, <<".",".">>}

\* The working directory with the directory d, and in it one file of one line.
GlobFs(name) ==
  [q \in {<<>>, <<<<"d">>>>, <<<<"d">>, name>>} |->
     IF Len(q) < 2 THEN Dir(TRUE) ELSE File(<<"x">>, TRUE)]

InitGlob ==
  /\ AtPrompt
  /\ \E glob \in GlobTexts, name \in BaseNames :
       /\ fs = GlobFs(name)
       /\ h = [kind |-> "glob", stage |-> "ready", glob |-> glob, name |-> name,
               ret |-> <<>>, fault |-> FALSE]

\* executeTool("search", { pattern: "x", file_pattern })
SearchFiltered ==
  /\ h.kind = "glob"
  /\ h.stage = "ready"
  /\ \E out \in {executeTool(fs, <<"s","e","a","r","c","h">>,
                   Args((<<"p","a","t","t","e","r","n">> :> <<"x">>) @@ (<<"f","i","l","e","_","p","a","t","t","e","r","n">> :> h.glob)))} :
       /\ fs' = out.fs
       /\ h' = [h EXCEPT !.stage = "done", !.ret = out.ret, !.fault = out.fault]
  /\ UNCHANGED session

NextGlob == SearchFiltered

SpecGlob == InitGlob /\ [][NextGlob]_vars

\* ------------------------------------------------------- search, the results
\* The line counts of the files: one line, and counts around the cap and
\* around half of it.
LineCounts ==
  {1} \cup ((MaxResults \div 2 - LineSlack)..(MaxResults \div 2 + LineSlack))
      \cup ((MaxResults - LineSlack)..(MaxResults + LineSlack))

\* Which lines of a file hold the letter searched for.
Styles == {"all", "alternate", "none"}

LineText(style, i) ==
  IF style = "none" THEN <<"y">>
  ELSE IF i % 2 = 1 THEN <<"x">>
  ELSE IF style = "all" THEN <<"a","X">>
  ELSE <<"y">>

LinesOf(style, n) == [i \in 1..n |-> LineText(style, i)]

\* a.txt and d/b.txt with the lines given, and c.md with one line "x".
SearchFs(linesA, linesB) ==
  [q \in {<<>>, <<<<"a",".","t","x","t">>>>, <<<<"c",".","m","d">>>>, <<<<"d">>>>, <<<<"d">>, <<"b",".","t","x","t">>>>} |->
     IF q \in {<<>>, <<<<"d">>>>} THEN Dir(TRUE)
     ELSE IF q = <<<<"a",".","t","x","t">>>> THEN File(Join(linesA, <<"\n">>), TRUE)
     ELSE IF q = <<<<"c",".","m","d">>>> THEN File(<<"x">>, TRUE)
     ELSE File(Join(linesB, <<"\n">>), TRUE)]

SearchPatterns == {<<"x">>, <<>>}
SearchFilters == {<<>>, <<"*",".","t","x","t">>}

\* The arguments of the call: file_pattern is left out when there is none.
SearchArgs(pattern, filter) ==
  IF filter = <<>> THEN Args(<<"p","a","t","t","e","r","n">> :> pattern)
  ELSE Args((<<"p","a","t","t","e","r","n">> :> pattern) @@ (<<"f","i","l","e","_","p","a","t","t","e","r","n">> :> filter))

InitSearch ==
  /\ AtPrompt
  /\ \E na \in LineCounts, nb \in LineCounts, sa \in Styles, sb \in Styles,
        pattern \in SearchPatterns, filter \in SearchFilters :
       /\ fs = SearchFs(LinesOf(sa, na), LinesOf(sb, nb))
       /\ h = [kind |-> "search", stage |-> "ready", pattern |-> pattern,
               filter |-> filter,
               lines |-> (<<"a",".","t","x","t">> :> LinesOf(sa, na)) @@ (<<"c",".","m","d">> :> <<<<"x">>>>)
                         @@ (<<"d","/","b",".","t","x","t">> :> LinesOf(sb, nb)),
               ret |-> <<>>, fault |-> FALSE, results |-> <<>>, opened |-> <<>>]

\* executeTool("search", { pattern, file_pattern }); results is the array the
\* returned text is joined from, opened the files readFileSync was called on.
SearchTree ==
  /\ h.kind = "search"
  /\ h.stage = "ready"
  /\ \E out \in {executeTool(fs, <<"s","e","a","r","c","h">>, SearchArgs(h.pattern, h.filter))} :
     \E scan \in {searchScan(fs, Get(SearchArgs(h.pattern, h.filter), <<"p","a","t","t","e","r","n">>),
                             JsStr(<<".">>),
                             Get(SearchArgs(h.pattern, h.filter), <<"f","i","l","e","_","p","a","t","t","e","r","n">>))} :
       /\ fs' = out.fs
       /\ h' = [h EXCEPT !.stage = "done", !.ret = out.ret, !.fault = out.fault,
                         !.results = scan.results, !.opened = scan.opened]
  /\ UNCHANGED session

NextSearch == SearchTree

SpecSearch == InitSearch /\ [][NextSearch]_vars

\* --------------------------------------------------------------- delete_file
\* What the directory d is in a tree: absent, empty, holding the file g, or
\* holding the empty directory s.
DeleteShapes == {"absent", "empty", "file", "dir"}

\* The working directory with the file f, the empty directory e and the
\* directory d, each present or not.
DeleteFs(hasF, hasE, shape) ==
  [q \in {<<>>} \cup (IF hasF THEN {<<<<"f">>>>} ELSE {})
                \cup (IF hasE THEN {<<<<"e">>>>} ELSE {})
                \cup (IF shape # "absent" THEN {<<<<"d">>>>} ELSE {})
                \cup (IF shape = "file" THEN {<<<<"d">>, <<"g">>>>} ELSE {})
                \cup (IF shape = "dir" THEN {<<<<"d">>, <<"s">>>>} ELSE {}) |->
     IF q \in {<<<<"f">>>>, <<<<"d">>, <<"g">>>>} THEN File(<<"x">>, TRUE) ELSE Dir(TRUE)]

\* The path arguments of delete_file: the text of the argument and the entry
\* of the tree it names.
DeleteTargets == {
  [text |-> <<"f">>, names |-> <<<<"f">>>>],
  [text |-> <<".","/","f">>, names |-> <<<<"f">>>>],
  [text |-> <<"e">>, names |-> <<<<"e">>>>],
  [text |-> <<"e","/">>, names |-> <<<<"e">>>>],
  [text |-> <<"e","/",".">>, names |-> <<<<"e">>>>],
  [text |-> <<"d">>, names |-> <<<<"d">>>>],
  [text |-> <<"d","/",".">>, names |-> <<<<"d">>>>],
  [text |-> <<"d","/","g">>, names |-> <<<<"d">>, <<"g">>>>],
  [text |-> <<"d","/","s">>, names |-> <<<<"d">>, <<"s">>>>],
  [text |-> <<"q">>, names |-> <<<<"q">>>>],
  [text |-> <<"q","/","r">>, names |-> <<<<"q">>, <<"r">>>>],
  [text |-> <<"f","/","q">>, names |-> <<<<"f">>, <<"q">>>>],
  [text |-> <<".">>, names |-> <<>>]}

InitDelete ==
  /\ AtPrompt
  /\ \E hasF \in BOOLEAN, hasE \in BOOLEAN, shape \in DeleteShapes, target \in DeleteTargets :
       /\ fs = DeleteFs(hasF, hasE, shape)
       /\ h = [kind |-> "delete", stage |-> "ready", before |-> DeleteFs(hasF, hasE, shape),
               target |-> target, ret |-> <<>>, fault |-> FALSE]

\* executeTool("delete_file", { path })
DeleteFile ==
  /\ h.kind = "delete"
  /\ h.stage = "ready"
  /\ \E out \in {executeTool(fs, <<"d","e","l","e","t","e","_","f","i","l","e">>, Args(<<"p","a","t","h">> :> h.target.text))} :
       /\ fs' = out.fs
       /\ h' = [h EXCEPT !.stage = "done", !.ret = out.ret, !.fault = out.fault]
  /\ UNCHANGED session

NextDelete == DeleteFile

SpecDelete == InitDelete /\ [][NextDelete]_vars

\* ---------------------------------------------------------------- write_file
\* The texts written: code units of one, two and three bytes, and the two
\* halves of a pair of four bytes, in any order.
WriteContents ==
  StringsUpTo({"a", "U+00E9", "U+20AC", "U+D83D", "U+DE00"}, MaxWritten)

\* The working directory with the files f and g and the directory d.
WriteFs ==
  [q \in {<<>>, <<<<"f">>>>, <<<<"g">>>>, <<<<"d">>>>} |->
     IF q = <<<<"f">>>> THEN File(<<"o","l","d">>, TRUE)
     ELSE IF q = <<<<"g">>>> THEN File(<<"x">>, TRUE)
     ELSE Dir(TRUE)]

\* The path arguments of write_file: a file that exists, a new file in a
\* directory that exists, below one and below two directories that are
\* missing, below a file, and a directory.
WriteTargets == {
  [text |-> <<"f">>, names |-> <<<<"f">>>>],
  [text |-> <<"d","/","f">>, names |-> <<<<"d">>, <<"f">>>>],
  [text |-> <<"n","/","f">>, names |-> <<<<"n">>, <<"f">>>>],
  [text |-> <<"n","/","m","/","f">>, names |-> <<<<"n">>, <<"m">>, <<"f">>>>],
  [text |-> <<"g","/","x">>, names |-> <<<<"g">>, <<"x">>>>],
  [text |-> <<"d">>, names |-> <<<<"d">>>>]}

InitWrite ==
  /\ AtPrompt
  /\ fs = WriteFs
  /\ \E content \in WriteContents, target \in WriteTargets :
       h = [kind |-> "write", stage |-> "ready", target |-> target, content |-> content,
            ret |-> <<>>, read |-> <<>>, fault |-> FALSE]

\* executeTool("write_file", { path, content })
WriteFile ==
  /\ h.kind = "write"
  /\ h.stage = "ready"
  /\ \E out \in {executeTool(fs, <<"w","r","i","t","e","_","f","i","l","e">>,
                   Args((<<"p","a","t","h">> :> h.target.text) @@ (<<"c","o","n","t","e","n","t">> :> h.content)))} :
       /\ fs' = out.fs
       /\ h' = [h EXCEPT !.stage = "written", !.ret = out.ret, !.fault = out.fault]
  /\ UNCHANGED session

\* executeTool("read_file", { path }) as the call after the write.
ReadBack ==
  /\ h.kind = "write"
  /\ h.stage = "written"
  /\ \E out \in {executeTool(fs, <<"r","e","a","d","_","f","i","l","e">>, Args(<<"p","a","t","h">> :> h.target.text))} :
       /\ fs' = out.fs
       /\ h' = [h EXCEPT !.stage = "read", !.read = out.ret, !.fault = out.fault]
  /\ UNCHANGED session

NextWrite == WriteFile \/ ReadBack

SpecWrite == InitWrite /\ [][NextWrite]_vars

\* ----------------------------------------------- search, unreadable entries
\* The working directory with the file a, the directory d with the file b,
\* and in d the directory s with the file c; each of the six readable or not.
\* Every file has a line with an x and a line without.
GuardedFs(r) ==
  [q \in {<<>>, <<<<"a">>>>, <<<<"d">>>>, <<<<"d">>, <<"b">>>>, <<<<"d">>, <<"s">>>>, <<<<"d">>, <<"s">>, <<"c">>>>} |->
     IF q = <<>> THEN Dir(r[1])
     ELSE IF q = <<<<"a">>>> THEN File(<<"x","1","\n","y">>, r[2])
     ELSE IF q = <<<<"d">>>> THEN Dir(r[3])
     ELSE IF q = <<<<"d">>, <<"b">>>> THEN File(<<"y","\n","x","2">>, r[4])
     ELSE IF q = <<<<"d">>, <<"s">>>> THEN Dir(r[5])
     ELSE File(<<"x","3">>, r[6])]

GuardedRoots == {<<".">>, <<"d">>, <<"d","/","s">>}
GuardedPatterns == {<<"x">>, <<"y">>}

InitGuarded ==
  /\ AtPrompt
  /\ \E r \in [1..6 -> BOOLEAN], root \in GuardedRoots, pattern \in GuardedPatterns :
       /\ fs = GuardedFs(r)
       /\ h = [kind |-> "guarded", stage |-> "ready", before |-> GuardedFs(r),
               root |-> root, pattern |-> pattern, ret |-> <<>>, fault |-> FALSE]

\* executeTool("search", { pattern, path })
SearchGuarded ==
  /\ h.kind = "guarded"
  /\ h.stage = "ready"
  /\ \E out \in {executeTool(fs, <<"s","e","a","r","c","h">>,
                   Args((<<"p","a","t","t","e","r","n">> :> h.pattern) @@ (<<"p","a","t","h">> :> h.root)))} :
       /\ fs' = out.fs
       /\ h' = [h EXCEPT !.stage = "done", !.ret = out.ret, !.fault = out.fault]
  /\ UNCHANGED session

NextGuarded == SearchGuarded

SpecGuarded == InitGuarded /\ [][NextGuarded]_vars

\* ------------------------------------------------------ sequences of calls
\* The working directory with the file a and the directory d holding g.
FrameFs ==
  [q \in {<<>>, <<<<"a">>>>, <<<<"d">>>>, <<<<"d">>, <<"g">>>>} |->
     IF q \in {<<>>, <<<<"d">>>>} THEN Dir(TRUE) ELSE File(<<"x">>, TRUE)]

\* The calls of a sequence: a tool name and the decoded arguments. Among them
\* are a search with a pattern that does not compile, a name that is not
\* registered, and a write_file without its content.
FrameCalls == {
  [name |-> <<"r","e","a","d","_","f","i","l","e">>, args |-> Args(<<"p","a","t","h">> :> <<"a">>)],
  [name |-> <<"r","e","a","d","_","f","i","l","e">>, args |-> Args(<<"p","a","t","h">> :> <<"q">>)],
  [name |-> <<"l","i","s","t","_","d","i","r","e","c","t","o","r","y">>, args |-> Args(<<"p","a","t","h">> :> <<"d">>)],
  [name |-> <<"s","e","a","r","c","h">>, args |-> Args(<<"p","a","t","t","e","r","n">> :> <<"x">>)],
  [name |-> <<"s","e","a","r","c","h">>, args |-> Args(<<"p","a","t","t","e","r","n">> :> <<"(">>)],
  [name |-> <<"n","o","p","e">>, args |-> Args(<<"p","a","t","h">> :> <<"a">>)],
  [name |-> <<"w","r","i","t","e","_","f","i","l","e">>, args |-> Args((<<"p","a","t","h">> :> <<"a">>) @@ (<<"c","o","n","t","e","n","t">> :> <<"y">>))],
  [name |-> <<"w","r","i","t","e","_","f","i","l","e">>, args |-> Args((<<"p","a","t","h">> :> <<"n","/","f">>) @@ (<<"c","o","n","t","e","n","t">> :> <<"y">>))],
  [name |-> <<"w","r","i","t","e","_","f","i","l","e">>, args |-> Args(<<"p","a","t","h">> :> <<"m","/","f">>)],
  [name |-> <<"w","r","i","t","e","_","f","i","l","e">>, args |-> Args((<<"p","a","t","h">> :> <<"d">>) @@ (<<"c","o","n","t","e","n","t">> :> <<"y">>))],
  [name |-> <<"e","d","i","t","_","f","i","l","e">>, args |-> Args((<<"p","a","t","h">> :> <<"a">>) @@ (<<"o","l","d","_","s","t","r","i","n","g">> :> <<"x">>)
                                       @@ (<<"n","e","w","_","s","t","r","i","n","g">> :> <<"z">>))],
  [name |-> <<"e","d","i","t","_","f","i","l","e">>, args |-> Args((<<"p","a","t","h">> :> <<"a">>) @@ (<<"o","l","d","_","s","t","r","i","n","g">> :> <<"q">>)
                                       @@ (<<"n","e","w","_","s","t","r","i","n","g">> :> <<"z">>))],
  [name |-> <<"d","e","l","e","t","e","_","f","i","l","e">>, args |-> Args(<<"p","a","t","h">> :> <<"a">>)],
  [name |-> <<"d","e","l","e","t","e","_","f","i","l","e">>, args |-> Args(<<"p","a","t","h">> :> <<"d">>)]}

InitFrame ==
  /\ AtPrompt
  /\ fs = FrameFs
  /\ h = [kind |-> "frame", steps |-> 0, name |-> <<>>, ret |-> <<>>, fault |-> FALSE]

\* executeTool(name, args) for the next call of the sequence.
CallTool ==
  /\ h.kind = "frame"
  /\ h.steps < MaxSteps
  /\ ~h.fault
  /\ \E call \in FrameCalls :
     \E out \in {executeTool(fs, call.name, call.args)} :
       /\ fs' = out.fs
       /\ h' = [h EXCEPT !.steps = h.steps + 1, !.name = call.name, !.ret = out.ret,
                         !.fault = out.fault]
  /\ UNCHANGED session

NextFrame == CallTool

SpecFrame == InitFrame /\ [][NextFrame]_vars

\* ------------------------------------------------- claims on the run loop
\* The positions of the tool messages of a conversation that carry id.
ToolResultsFor(conv, id) ==
  {j \in 1..Len(conv) : conv[j].role = "tool" /\ conv[j].tool_call_id = id}

CountRole(conv, role) == Cardinality({j \in 1..Len(conv) : conv[j].role = role})

\* C1: whenever the Model Client is invoked, every tool call of every
\* assistant message of the request has exactly one tool message with its
\* identifier, and that message comes after the assistant message.
C1_EveryToolCallAnswered ==
  pc = "invoking" =>
    \A a \in 1..Len(request) :
      \A k \in 1..Len(request[a].tool_calls.list) :
        /\ Cardinality(ToolResultsFor(request, request[a].tool_calls.list[k].id)) = 1
        /\ \A j \in ToolResultsFor(request, request[a].tool_calls.list[k].id) : j > a

\* The model is invoked with a request that holds a response of two calls.
C1_Witness ==
  /\ pc = "invoking"
  /\ \E a \in 1..Len(request) : Len(request[a].tool_calls.list) = 2

\* The calls of the current response the loop has completed.
Completed ==
  IF pc \in {"executing", "faulted"} THEN tcIndex - 1 ELSE Len(msg.tool_calls.list)

\* The run is in, or has just left, the loop over the calls of a response.
InToolTurn ==
  \/ pc = "executing"
  \/ pc = "faulted" /\ tcIndex >= 1
  \/ pc = "invoking" /\ turn > 1

\* A tool that changes no file, whatever its arguments.
ReadsOnly(tc) == tc.name \notin {<<"w","r","i","t","e","_","f","i","l","e">>, <<"e","d","i","t","_","f","i","l","e">>, <<"d","e","l","e","t","e","_","f","i","l","e">>}

\* C2: the calls of a response run one at a time in the order received. While
\* and after the loop runs, the conversation ends with the response followed
\* by one result per completed call, the i-th carrying the i-th identifier;
\* the result of a completed call that only reads is what that call returns
\* on the files as they are now, the effects of the calls before it included;
\* and the model is next invoked only with all k results in the request.
C2_SequentialInOrder ==
  InToolTurn =>
    /\ Len(messages) > Completed
    /\ messages[Len(messages) - Completed] = msg
    /\ \A j \in 1..Completed :
         /\ messages[Len(messages) - Completed + j].role = "tool"
         /\ messages[Len(messages) - Completed + j].tool_call_id = msg.tool_calls.list[j].id
    /\ (Completed >= 1 /\ ReadsOnly(msg.tool_calls.list[Completed])) =>
         messages[Len(messages)].content =
           JsStr(DecodeAndExecute(program, msg.tool_calls.list[Completed], fs).ret)
    /\ pc = "invoking" => request = messages

\* A response wrote the file and then read it, and the model is invoked with
\* both results, the second being the text just written.
C2_Witness ==
  /\ pc = "invoking"
  /\ turn > 1
  /\ Len(msg.tool_calls.list) = 2
  /\ msg.tool_calls.list[1].name = <<"w","r","i","t","e","_","f","i","l","e">>
  /\ msg.tool_calls.list[2].name = <<"r","e","a","d","_","f","i","l","e">>
  /\ messages[Len(messages)].content = JsStr(<<"y">>)
  /\ request = messages

\* C3: a response with zero tool calls (no list, or an empty one) ends the run
\* at once: it is never appended to the conversation, and the model is never
\* invoked again after it.
C3_ZeroCallsEndTheRun ==
  /\ \A a \in 1..Len(messages) :
       messages[a].role = "assistant" => Len(messages[a].tool_calls.list) > 0
  /\ (pc = "invoking" /\ turn > 1) => Len(msg.tool_calls.list) > 0

\* C4: a call whose argument payload decodes never makes run throw: when run
\* throws in the loop, the payload of the call it was at did not decode.
C4_DecodedCallsNeverFault ==
  (pc = "faulted" /\ tcIndex >= 1) =>
    ~JSONparse(msg.tool_calls.list[tcIndex].arguments).ok

\* C10: every request of a run starts with the one user message of the run,
\* holding the line that started it, and holds besides it only the responses
\* of this run and their results: one assistant message per earlier
\* invocation of the run.
C10_FreshConversation ==
  pc = "invoking" =>
    /\ request[1] = UserMessage(input)
    /\ CountRole(request, "user") = 1
    /\ CountRole(request, "assistant") = turn - 1
    /\ turn = 1 => request = <<UserMessage(input)>>

\* The first invocation of a run that follows a run with tool calls.
C10_Witness ==
  /\ pc = "invoking"
  /\ turn = 1
  /\ invocations > 2
  /\ issued > 0

\* ------------------------------------------------------ claims on edit_file
\* The 0-based positions at which sub occurs in s (overlapping ones included).
Positions(s, sub) == {i \in 0..Len(s) : StartsAt(s, sub, i)}

\* The non-overlapping occurrences of sub in s, counted from the left; the
\* empty string occurs before every character and at the end.
RECURSIVE Occurrences(_, _)
Occurrences(s, sub) ==
  IF sub = <<>> THEN Len(s) + 1
  ELSE IF Len(s) < Len(sub) THEN 0
  ELSE IF Take(s, Len(sub)) = sub THEN 1 + Occurrences(Drop(s, Len(sub)), sub)
  ELSE Occurrences(Tail(s), sub)

EditDone == h.kind = "edit" /\ h.stage = "done"
FilePresent == <<<<"f">>>> \in DOMAIN h.before
ContentBefore == h.before[<<<<"f">>>>].content

\* C5: when old_string S occurs in the content C = A + S + B at exactly one
\* position, edit_file succeeds and the file then holds exactly A + T + B for
\* the new_string T, whatever characters T has: T is put in literally.
C5_UniqueOccurrenceReplacedLiterally ==
  (EditDone /\ FilePresent /\ Cardinality(Positions(ContentBefore, h.old)) = 1) =>
    \A i \in Positions(ContentBefore, h.old) :
      /\ ~h.fault
      /\ h.ret = <<"S","u","c","c","e","s","s","f","u","l","l","y"," ","e","d","i","t","e","d"," ","f">>
      /\ DOMAIN fs = DOMAIN h.before
      /\ fs[<<<<"f">>>>].content =
           Take(ContentBefore, i) \o h.new \o Drop(ContentBefore, i + Len(h.old))

\* C6: edit_file changes the file only when old_string occurs exactly once.
\* A missing file gives the file-not-found error, no occurrence the not-found
\* error, k >= 2 occurrences the error that names k; in each of these cases the
\* filesystem is what it was, the empty old_string included.
C6_NoEditUnlessUnique ==
  EditDone =>
    /\ ~h.fault
    /\ ~FilePresent =>
         /\ h.ret = <<"E","r","r","o","r",":"," ","F","i","l","e"," ","n","o","t"," ","f","o","u","n","d",":"," ","f">>
         /\ fs = h.before
    /\ (FilePresent /\ Occurrences(ContentBefore, h.old) = 0) =>
         /\ h.ret = <<"E","r","r","o","r",":"," ","o","l","d","_","s","t","r","i","n","g"," ","n","o","t"," ","f","o","u","n","d"," ","i","n"," ","f">>
         /\ fs = h.before
    /\ (FilePresent /\ Occurrences(ContentBefore, h.old) >= 2) =>
         /\ h.ret = <<"E","r","r","o","r",":"," ","o","l","d","_","s","t","r","i","n","g"," ","a","p","p","e","a","r","s"," ">>
                    \o Dec(Occurrences(ContentBefore, h.old))
                    \o <<" ","t","i","m","e","s"," ","i","n"," ","f","."," ","M","u","s","t"," ","b","e"," ","u","n","i","q","u","e",".">>
         /\ fs = h.before

\* --------------------------------------------------------- claims on search
\* Whether the whole of name matches glob, "*" standing for any run of
\* characters, "?" for one character, any other character for itself, the
\* case of letters ignored.
Folded(c) ==
  IF \E i \in 1..Len(UpperCase) : UpperCase[i] = c
  THEN LowerCase[CHOOSE i \in 1..Len(UpperCase) : UpperCase[i] = c]
  ELSE c

SameLetter(a, b) == Folded(a) = Folded(b)

RECURSIVE GlobAccepts(_, _)
GlobAccepts(glob, name) ==
  IF glob = <<>> THEN name = <<>>
  ELSE IF glob[1] = "*"
  THEN \/ GlobAccepts(Tail(glob), name)
       \/ name # <<>> /\ GlobAccepts(glob, Tail(name))
  ELSE /\ name # <<>>
       /\ glob[1] = "?" \/ SameLetter(glob[1], name[1])
       /\ GlobAccepts(Tail(glob), Tail(name))

GlobDone == h.kind = "glob" /\ h.stage = "done"

\* C9: a search with the file_pattern G reports the one line of the file d/F
\* exactly when the base name F matches G as a glob, and nothing otherwise; the
\* directory name d takes no part in the match.
C9_GlobMatchesBaseName ==
  GlobDone =>
    /\ ~h.fault
    /\ GlobAccepts(h.glob, h.name) => h.ret = <<"d","/">> \o h.name \o <<":","1",":"," ","x">>
    /\ ~GlobAccepts(h.glob, h.name) => h.ret = <<"N","o"," ","m","a","t","c","h","e","s"," ","f","o","u","n","d">>

SearchDone == h.kind = "search" /\ h.stage = "done"

\* The files a search scans: those the walker collected, in its order, whose
\* name passes the file_pattern.
EndsWith(s, suffix) ==
  Len(s) >= Len(suffix) /\ SubSeq(s, Len(s) - Len(suffix) + 1, Len(s)) = suffix

Scanned ==
  SelectSeq(walkFiles(fs, <<".">>), LAMBDA p : h.filter = <<>> \/ EndsWith(p, <<".","t","x","t">>))

\* Whether a line matches the pattern of the search: the empty pattern matches
\* every line, the pattern x a line with the letter in either case.
LineMatches(line) ==
  h.pattern = <<>> \/ \E i \in 1..Len(line) : Folded(line[i]) = "x"

\* The matching lines of the file p, in increasing line number, each with the
\* result line that names it.
HitsOfFile(p) ==
  LET numbers == SelectSeq([n \in 1..Len(h.lines[p]) |-> n],
                           LAMBDA n : LineMatches(h.lines[p][n]))
  IN [k \in 1..Len(numbers) |->
        [file |-> p,
         text |-> p \o <<":">> \o Dec(numbers[k]) \o <<":"," ">> \o h.lines[p][numbers[k]]]]

RECURSIVE HitsOf(_)
HitsOf(files) == IF files = <<>> THEN <<>> ELSE HitsOfFile(files[1]) \o HitsOf(Tail(files))

\* The matching lines of all scanned files, in traversal order.
Hits == HitsOf(Scanned)

\* The place of a file in a sequence of files.
PlaceIn(files, p) == CHOOSE i \in 1..Len(files) : files[i] = p

\* C7: with N the number of matching lines of all scanned files, the result is
\* the sentinel when N = 0; exactly N result lines and no truncation marker
\* when 1 <= N <= 50; the first 50 result lines and then one marker line when
\* N > 50. The cap counts over the whole search, and no file after the one
\* that holds the 50th match is read.
C7_CapAndSentinel ==
  SearchDone =>
    LET hits == Hits
        files == Scanned
    IN /\ ~h.fault
       /\ Len(hits) = 0 => h.ret = <<"N","o"," ","m","a","t","c","h","e","s"," ","f","o","u","n","d">>
       /\ (1 <= Len(hits) /\ Len(hits) <= MaxResults) =>
            /\ Len(h.results) = Len(hits)
            /\ \A k \in 1..Len(h.results) : h.results[k] # TruncationMarker
            /\ h.ret = Join(h.results, <<"\n">>)
       /\ Len(hits) > MaxResults =>
            /\ Len(h.results) = MaxResults + 1
            /\ \A k \in 1..MaxResults : h.results[k] = hits[k].text
            /\ h.results[MaxResults + 1] = TruncationMarker
            /\ h.ret = Join(h.results, <<"\n">>)
       /\ Len(hits) >= MaxResults =>
            \A j \in 1..Len(h.opened) :
              PlaceIn(files, h.opened[j]) <= PlaceIn(files, hits[MaxResults].file)

\* The result lines of a search: its results without the truncation marker.
ResultLines ==
  IF h.results # <<>> /\ h.results[Len(h.results)] = TruncationMarker
  THEN Take(h.results, Len(h.results) - 1)
  ELSE h.results

\* r can be had from s by leaving elements out.
RECURSIVE IsSubsequence(_, _)
IsSubsequence(r, s) ==
  IF r = <<>> THEN TRUE
  ELSE IF s = <<>> THEN FALSE
  ELSE IF r[1] = s[1] THEN IsSubsequence(Tail(r), Tail(s))
  ELSE IsSubsequence(r, Tail(s))

\* C8: the result lines of a search are, in this order and each at most once,
\* lines of the form <path>:<n>: <text> of matching lines only, n the 1-based
\* number of the line in its file: files in the order of the walker, the lines
\* of a file in increasing number. (Hits lists exactly these lines in exactly
\* this order, each once, so the result lines must be got from it by leaving
\* lines out.)
C8_ResultLineFormAndOrder ==
  SearchDone =>
    /\ ~h.fault
    /\ LET hits == Hits
       IN IsSubsequence(ResultLines, [k \in 1..Len(hits) |-> hits[k].text])
    /\ h.ret = IF h.results = <<>> THEN <<"N","o"," ","m","a","t","c","h","e","s"," ","f","o","u","n","d">> ELSE Join(h.results, <<"\n">>)

\* A search reported lines 1 and 3 of a.txt, skipping line 2, then the line of
\* c.md, and at the end a line of d/b.txt that matches by its capital letter.
C8_Witness ==
  /\ SearchDone
  /\ Len(h.results) >= 4
  /\ h.results[1] = <<"a",".","t","x","t",":","1",":"," ","x">>
  /\ h.results[2] = <<"a",".","t","x","t",":","3",":"," ","x">>
  /\ \E k \in 3..Len(h.results) : h.results[k] = <<"c",".","m","d",":","1",":"," ","x">>
  /\ h.results[Len(h.results)] = <<"d","/","b",".","t","x","t",":","2","4",":"," ","a","X">>

\* ------------------------------------------- more claims on the run loop
\* a is b with nothing or some elements added at the end.
IsPrefix(a, b) == Len(a) <= Len(b) /\ SubSeq(b, 1, Len(a)) = a

\* A step that starts a run: prompt's callback calls run.
RunStarts == pc = "prompt" /\ pc' = "invoking"

\* C11: within a run the conversation only grows at its end: every step that
\* does not start a run leaves the messages so far as a prefix of the
\* messages after it; and every request holds the whole conversation, and
\* from the second request of a run on extends the request before it.
C11_AppendOnly ==
  [][/\ ~RunStarts => IsPrefix(messages, messages')
     /\ pc' = "invoking" => request' = messages'
     /\ (pc' = "invoking" /\ turn' > 1) =>
          /\ turn' = turn + 1
          /\ IsPrefix(request, request')
          /\ Len(request') > Len(request)]_vars

\* The third request of a run, after two responses with tool calls.
C11_Witness ==
  /\ pc = "invoking"
  /\ turn = 3
  /\ Len(request) >= 5
  /\ request = messages

\* JSON.parse throws on the arguments text of the call.
Undecodable(tc) == ~JSONparse(tc.arguments).ok

\* C12: when the arguments of the call the loop is at cannot be decoded, the
\* step ends the run by the fault: no result is appended, the conversation,
\* the filesystem and the last request are what they were (the results and the
\* effects of the calls before it stay), no model invocation is issued; and
\* nothing happens after a fault: the calls after it are never executed.
C12_DecodeFaultEndsRun ==
  [][/\ (pc = "executing" /\ Undecodable(msg.tool_calls.list[tcIndex])) =>
          /\ pc' = "faulted"
          /\ messages' = messages
          /\ fs' = fs
          /\ request' = request
          /\ invocations' = invocations
          /\ tcIndex' = tcIndex
     /\ pc # "faulted"]_vars

\* The second call of a response could not be decoded, after a first call that
\* wrote the file: its result is the last message and the file stays written.
C12_Witness ==
  /\ pc = "faulted"
  /\ tcIndex = 2
  /\ Undecodable(msg.tool_calls.list[2])
  /\ msg.tool_calls.list[1].name = <<"w","r","i","t","e","_","f","i","l","e">>
  /\ fs # InitialFs
  /\ messages[Len(messages)] = ToolMessage(msg.tool_calls.list[1].id,
                                            <<"S","u","c","c","e","s","s","f","u","l","l","y"," ","w","r","o","t","e"," ","1"," ","b","y","t","e","s"," ","t","o"," ","a">>)

\* The tool names a build dispatches on.
Registered(build) ==
  IF build = "agent.ts" THEN {<<"r","e","a","d","_","f","i","l","e">>, <<"l","i","s","t","_","d","i","r","e","c","t","o","r","y">>} ELSE ToolNames

\* The text a build answers a name it does not dispatch on with.
UnknownText(build, name) ==
  IF build = "agent.ts" THEN <<"U","n","k","n","o","w","n"," ","t","o","o","l">> ELSE <<"U","n","k","n","o","w","n"," ","t","o","o","l",":"," ">> \o name

\* The loop is at a call with a name that is not registered and with
\* arguments that decode.
AtUnknownTool ==
  /\ pc = "executing"
  /\ msg.tool_calls.list[tcIndex].name \notin Registered(program)
  /\ ~Undecodable(msg.tool_calls.list[tcIndex])

\* C13: a call with a name that is not registered, whatever its arguments
\* decode to, does not raise: the step leaves the filesystem as it is, appends
\* the "Unknown tool" text as the result of that call, and the run goes on,
\* with the next call of the response or, after the last, the next invocation.
C13_UnknownToolIsAText ==
  [][AtUnknownTool =>
       /\ fs' = fs
       /\ messages' = Append(messages,
            ToolMessage(msg.tool_calls.list[tcIndex].id,
                        UnknownText(program, msg.tool_calls.list[tcIndex].name)))
       /\ IF tcIndex < Len(msg.tool_calls.list)
          THEN pc' = "executing" /\ tcIndex' = tcIndex + 1
          ELSE pc' = "invoking" /\ request' = messages']_vars

\* An unknown name with arguments that decode to null was answered, and the
\* loop is at the next call of the response.
C13_Witness ==
  /\ pc = "executing"
  /\ tcIndex = 2
  /\ msg.tool_calls.list[1] = ToolCall(msg.tool_calls.list[1].id, <<"n","o","p","e">>, <<"n","u","l","l">>)
  /\ messages[Len(messages)].content = JsStr(UnknownText(program, <<"n","o","p","e">>))

\* A step that takes a line from the user.
TakesLine == input' # input \/ (pc = "prompt" /\ pc' = "invoking")

\* C17: at most one run is active at a time. A line is taken only while no run
\* is active; a run starts (a first invocation) only from the prompt; while a
\* run is active every invocation and every tool execution belongs to it (the
\* line of the run and the count of runs stay as they are, the turn counts
\* up). A line that is blank after trimming starts no run: the step invokes no
\* model, executes no tool, changes no message, and leaves the prompt pending.
C17_OneRunAtATime ==
  [][/\ TakesLine => pc = "prompt"
     /\ (pc' = "invoking" /\ turn' = 1) => pc = "prompt"
     /\ pc # "prompt" =>
          /\ input' = input
          /\ messages'[1] = messages[1]
          /\ turn' \in {turn, turn + 1}
     /\ (pc = "prompt" /\ Trim(input') = <<>>) =>
          /\ pc' = "prompt"
          /\ invocations' = invocations
          /\ messages' = messages
          /\ request' = request
          /\ fs' = fs
          /\ turn' = turn]_vars

\* A blank line was taken after a run with tool calls, and the prompt is
\* pending again with the session as the run left it.
C17_Witness ==
  /\ pc = "prompt"
  /\ input = <<" ">>
  /\ invocations >= 2
  /\ Len(messages) >= 3

\* A step in which the Model Client returns a response.
ResponseArrives == pc = "invoking" /\ pc' # "faulted"

\* C18: a run ends in Done exactly when the model returns a response without
\* tool calls: the step that receives a response ends the run, prints the
\* content of the response and returns to the prompt if the response carries
\* zero tool calls, and otherwise (one call or more) goes on executing.
C18_ZeroCallsEndInDone ==
  [][ResponseArrives =>
       IF Len(msg'.tool_calls.list) = 0
       THEN pc' = "prompt" /\ stdout' = Printed("content", JsToString(msg'.content))
       ELSE pc' = "executing" /\ tcIndex' = 1]_vars

\* C19: after every run, ended by a final answer or by an uncaught fault, the
\* prompt is issued again: at every moment a run is active or a prompt is
\* pending.
C19_PromptAlwaysReturns == pc \in {"prompt", "invoking", "executing"}

\* ---------------------------------------------------- claims on delete_file
DeleteDone == h.kind = "delete" /\ h.stage = "done"

\* The tree without the entry at names, every other entry as it was.
Without(tree, names) == [q \in (DOMAIN tree) \ {names} |-> tree[q]]

\* What the argument names in the tree the call ran on.
OnFile == h.target.names \in DOMAIN h.before /\ h.before[h.target.names].kind = "file"
OnDirectory == h.target.names \in DOMAIN h.before /\ h.before[h.target.names].kind = "dir"
OnEmptyDirectory ==
  /\ OnDirectory
  /\ \A q \in DOMAIN h.before :
       Len(q) > Len(h.target.names) => SubSeq(q, 1, Len(h.target.names)) # h.target.names
OnMissing == h.target.names \notin DOMAIN h.before

\* The argument ends in a "." component; an ancestor of what it names is a
\* regular file.
EndsInDot == h.target.text[Len(h.target.text)] = "."
BelowFile ==
  \E k \in 1..(Len(h.target.names) - 1) :
    /\ SubSeq(h.target.names, 1, k) \in DOMAIN h.before
    /\ h.before[SubSeq(h.target.names, 1, k)].kind = "file"

DeleteRefused(reason, syscall) ==
  /\ h.ret = <<"E","r","r","o","r"," ","d","e","l","e","t","i","n","g",":"," ">> \o reason \o <<","," ">> \o syscall \o <<" ","'">> \o h.target.text \o <<"'">>
  /\ fs = h.before

WriteSucceeded ==
  /\ h.kind = "write"
  /\ h.stage \in {"written", "read"}
  /\ IsPrefix(<<"S","u","c","c","e","s","s","f","u","l","l","y"," ","w","r","o","t","e"," ">>, h.ret)

\* The code unit at i of s is a surrogate without its partner next to it.
Unpaired(s, i) ==
  \/ s[i] = "U+D83D" /\ ~(i < Len(s) /\ s[i + 1] = "U+DE00")
  \/ s[i] = "U+DE00" /\ ~(i > 1 /\ s[i - 1] = "U+D83D")

\* The text has no surrogate without its partner: it is a sequence of
\* characters of Unicode.
WellFormed(s) == \A i \in 1..Len(s) : ~Unpaired(s, i)

\* The text with U+FFFD in the place of every surrogate without a partner.
Repaired(s) == [i \in 1..Len(s) |-> IF Unpaired(s, i) THEN "U+FFFD" ELSE s[i]]

\* The share of the code unit at i in the length of the UTF-8 encoding: a
\* character below U+0080 is one byte, below U+0800 two, below U+10000 three;
\* the two halves of a pair are two each, four for the character.
UnitBytes(s, i) ==
  IF s[i] = "U+00E9" THEN 2
  ELSE IF s[i] \in {"U+20AC", "U+FFFD"} THEN 3
  ELSE IF s[i] \in {"U+D83D", "U+DE00"} THEN (IF Unpaired(s, i) THEN 3 ELSE 2)
  ELSE 1

RECURSIVE EncodedLengthTo(_, _)
EncodedLengthTo(s, n) == IF n = 0 THEN 0 ELSE UnitBytes(s, n) + EncodedLengthTo(s, n - 1)
EncodedLength(s) == EncodedLengthTo(s, Len(s))

\* Every directory on the way to the file exists.
ParentsExist ==
  \A k \in 1..(Len(h.target.names) - 1) :
    /\ SubSeq(h.target.names, 1, k) \in DOMAIN fs
    /\ fs[SubSeq(h.target.names, 1, k)].kind = "dir"

WroteBytesOfContent ==
  h.ret = <<"S","u","c","c","e","s","s","f","u","l","l","y"," ","w","r","o","t","e"," ">> \o Dec(EncodedLength(h.content)) \o <<" ","b","y","t","e","s"," ","t","o"," ">>
          \o h.target.text

\* C15 as stated: when write_file reports success, the parent directories of
\* the path exist, the file holds exactly content, the number of the result is
\* the length of the UTF-8 encoding of content, and the read_file that follows
\* returns exactly content.
C15_WriteRoundTrip ==
  WriteSucceeded =>
    /\ ~h.fault
    /\ ParentsExist
    /\ h.target.names \in DOMAIN fs
    /\ fs[h.target.names].kind = "file"
    /\ fs[h.target.names].content = h.content
    /\ WroteBytesOfContent
    /\ h.stage = "read" => h.read = h.content

\* C15, amended: as stated for a content that is well formed. In general the
\* file holds, and read_file returns, content with U+FFFD in the place of
\* every surrogate without a partner; the number of the result is the length
\* of the UTF-8 encoding, three bytes for each such surrogate.
C15_WriteRoundTripAmended ==
  WriteSucceeded =>
    /\ ~h.fault
    /\ ParentsExist
    /\ h.target.names \in DOMAIN fs
    /\ fs[h.target.names].kind = "file"
    /\ fs[h.target.names].content = Repaired(h.content)
    /\ WellFormed(h.content) => fs[h.target.names].content = h.content
    /\ WroteBytesOfContent
    /\ h.stage = "read" => h.read = Repaired(h.content)

\* A text of three code units and six bytes was written below two missing
\* directories and read back.
C15_Witness ==
  /\ h.kind = "write"
  /\ h.stage = "read"
  /\ h.content = <<"U+00E9", "U+D83D", "U+DE00">>
  /\ h.ret = <<"S","u","c","c","e","s","s","f","u","l","l","y"," ","w","r","o","t","e"," ","6"," ","b","y","t","e","s"," ","t","o"," ","n","/","m","/","f">>
  /\ h.read = h.content
  /\ {<<<<"n">>>>, <<<<"n">>, <<"m">>>>, <<<<"n">>, <<"m">>, <<"f">>>>} \subseteq DOMAIN fs

\* --------------------------------------- claims on search, unreadable entries
GuardedDone == h.kind = "guarded" /\ h.stage = "done"

\* The entry at q and every directory above it can be read.
Reachable(tree, q) == \A k \in 0..Len(q) : tree[SubSeq(q, 1, k)].readable

\* The tree without its unreadable files and without the subtrees of its
\* unreadable directories; of an unreadable working directory there remains
\* the empty directory.
Pruned(tree) ==
  [q \in {p \in DOMAIN tree : p = <<>> \/ Reachable(tree, p)} |->
     [tree[q] EXCEPT !.readable = TRUE]]

\* The result lines a file of the tree contributes, by the content the tree
\* is built with: the lines with the pattern of the files below the root
\* argument, in the order of the walk.
ReadableLines(tree, root, pattern) ==
  (IF <<<<"a">>>> \in DOMAIN tree /\ root = <<".">>
   THEN (IF pattern = <<"x">> THEN <<<<"a",":","1",":"," ","x","1">>>> ELSE <<<<"a",":","2",":"," ","y">>>>) ELSE <<>>)
  \o (IF <<<<"d">>, <<"b">>>> \in DOMAIN tree /\ root \in {<<".">>, <<"d">>}
      THEN (IF pattern = <<"x">> THEN <<<<"d","/","b",":","2",":"," ","x","2">>>> ELSE <<<<"d","/","b",":","1",":"," ","y">>>>)
      ELSE <<>>)
  \o (IF <<<<"d">>, <<"s">>, <<"c">>>> \in DOMAIN tree /\ pattern = <<"x">>
      THEN <<<<"d","/","s","/","c",":","1",":"," ","x","3">>>> ELSE <<>>)

\* C16: a directory that cannot be listed and a file that cannot be read
\* never abort a search and are never reported: the result is the result of
\* the same search over the tree without the unreadable subtrees and files,
\* that is, the lines of the readable files in the order of the walk, or
\* `No matches found` when none is left (the root that cannot be listed
\* among the cases).
C16_UnreadableSkipped ==
  GuardedDone =>
    /\ ~h.fault
    /\ fs = h.before
    /\ h.ret = searchTool(Pruned(h.before), JsStr(h.pattern), JsStr(h.root),
                          JsUndefined).ret
    /\ h.ret = (IF ReadableLines(Pruned(h.before), h.root, h.pattern) = <<>>
                THEN <<"N","o"," ","m","a","t","c","h","e","s"," ","f","o","u","n","d">>
                ELSE Join(ReadableLines(Pruned(h.before), h.root, h.pattern), <<"\n">>))

\* A search from the working directory went past the unreadable file b and
\* the unreadable directory s and reported the one line of a.
C16_Witness ==
  /\ GuardedDone
  /\ h.root = <<".">>
  /\ h.pattern = <<"x">>
  /\ ~h.before[<<<<"d">>, <<"b">>>>].readable
  /\ ~h.before[<<<<"d">>, <<"s">>>>].readable
  /\ h.before[<<<<"d">>, <<"s">>, <<"c">>>>].readable
  /\ h.ret = <<"a",":","1",":"," ","x","1">>

\* --------------------------------------------------- claims on the frame
\* C20: read_file, list_directory, search (with a pattern that compiles or
\* not) and a call with a name that is not registered leave the filesystem
\* as it is: in any sequence of calls, a call after which the set of paths or
\* the content of a file differs is a write_file, edit_file or delete_file
\* that reported success.
C20_OnlySuccessfulWritersChange ==
  [][fs' # fs =>
       /\ h'.name \in {<<"w","r","i","t","e","_","f","i","l","e">>, <<"e","d","i","t","_","f","i","l","e">>, <<"d","e","l","e","t","e","_","f","i","l","e">>}
       /\ IsPrefix(<<"S","u","c","c","e","s","s","f","u","l","l","y"," ">>, h'.ret)]_vars
====
